---- MODULE Spec2Model ----
(***************************************************************************)
(* EXCEL-Agent: the ReAct agent loop (agent.py), the tool registry and     *)
(* dispatcher (tools.py) and the spreadsheet tool implementations          *)
(* (processor.py), as a state machine.                                     *)
(***************************************************************************)
EXTENDS Integers, Sequences, FiniteSets, TLC

(***************************************************************************)
(* Python / JSON values.  Every value is a tagged record; each kind keeps  *)
(* its payload in a field of its own.                                      *)
(***************************************************************************)
PyNone == [t |-> "null"]
PyStr(s) == [t |-> "str", s |-> s]
PyInt(n) == [t |-> "int", n |-> n]
PyBool(b) == [t |-> "bool", b |-> b]
PyFloat(num, den) == [t |-> "float", num |-> num, den |-> den]
PyList(q) == [t |-> "list", items |-> q]
PyDict(m) == [t |-> "dict", m |-> m]
\* the text by which an entry of a dict is indexed here: the key itself when
\* it is a str, and what json.dumps writes for an int, bool or None key
KeyText(key) ==
  CASE key.t = "str" -> key.s
    [] key.t = "int" -> ToString(key.n)
    [] key.t = "bool" -> IF key.b THEN "true" ELSE "false"
    [] key.t = "null" -> "null"
    [] OTHER -> "<" \o key.t \o ">"
\* a dict some of whose keys are not str: keys gives the key of each entry
PyKeyedDict(keys, m) == [t |-> "dict", m |-> m, keys |-> keys]
\* a datetime.datetime cell value as openpyxl returns it
PyDatetime == [t |-> "datetime"]

\* the empty dict {}
NoArgs == <<>>

IsStr(v) == v.t = "str"
IsDict(v) == v.t = "dict"

\* a truth test that every value passes
AlwaysTruthy(v) == TRUE

\* bool(v): Python truthiness, as `if not tool_call` uses it
Truthy(v) ==
  CASE v.t = "null" -> FALSE
    [] v.t = "str" -> v.s # ""
    [] v.t = "int" -> v.n # 0
    [] v.t = "bool" -> v.b
    [] v.t = "float" -> v.num # 0
    [] v.t = "list" -> Len(v.items) > 0
    [] v.t = "dict" -> DOMAIN v.m # {}
    [] OTHER -> TRUE

\* hash(v) is defined: lists and dicts are unhashable
Hashable(v) == v.t \notin {"list", "dict"}

RECURSIVE JoinReprs(_)
RECURSIVE PyRepr(_)
\* repr(v), which str() of a container applies to its elements
PyRepr(v) ==
  CASE v.t = "null" -> "None"
    [] v.t = "str" -> "'" \o v.s \o "'"
    [] v.t = "int" -> ToString(v.n)
    [] v.t = "bool" -> IF v.b THEN "True" ELSE "False"
    [] v.t = "float" -> ToString(v.num) \o "/" \o ToString(v.den)
    [] v.t = "list" -> "[" \o JoinReprs(v.items) \o "]"
    [] v.t = "dict" -> "{...}"
    [] OTHER -> "datetime.datetime(...)"
JoinReprs(q) ==
  IF q = <<>> THEN ""
  ELSE IF Len(q) = 1 THEN PyRepr(q[1])
  ELSE PyRepr(q[1]) \o ", " \o JoinReprs(Tail(q))

\* str(v), what an f-string {v} renders
PyFormat(v) == IF v.t = "str" THEN v.s ELSE PyRepr(v)

(***************************************************************************)
(* Strings and paths                                                       *)
(***************************************************************************)
\* `sub in s` on str
Contains(s, sub) ==
  \E k \in 1..(Len(s) - Len(sub) + 1) : SubSeq(s, k, k + Len(sub) - 1) = sub

\* os.path.isabs (posix)
isabs(s) == Len(s) >= 1 /\ SubSeq(s, 1, 1) = "/"

\* os.path.join(a, b) (posix)
join(a, b) ==
  IF isabs(b) THEN b
  ELSE IF a = "" \/ SubSeq(a, Len(a), Len(a)) = "/" THEN a \o b
  ELSE a \o "/" \o b

(***************************************************************************)
(* Outcome of a call: a returned value or a raised exception               *)
(***************************************************************************)
NoExc == [type |-> "", msg |-> ""]
Return(v) == [raised |-> FALSE, value |-> v, exc |-> NoExc]
Raise(type, msg) == [raised |-> TRUE, value |-> PyNone, exc |-> [type |-> type, msg |-> msg]]

\* os.path.join of the two without any check of the filename
unchecked_path(output_dir, filename) == Return(PyStr(join(output_dir.s, filename.s)))

\* processor._get_safe_path
get_safe_path(output_dir, filename) ==
  IF ~IsStr(filename) THEN Raise("TypeError", "argument is not a str")
  ELSE IF Contains(filename.s, "..") \/ isabs(filename.s)
    THEN Raise("ValueError", "Invalid filename '" \o filename.s
                 \o "'. Must be a relative path with no directory traversal.")
  ELSE IF ~IsStr(output_dir) THEN Raise("TypeError", "expected str, bytes or os.PathLike object")
  ELSE Return(PyStr(join(output_dir.s, filename.s)))

(***************************************************************************)
(* The tool registry (tools.py) and the processor signatures               *)
(***************************************************************************)
\* tools.TOOLS: the schema of each tool (name, declared properties, required
\* list) and the processor function it is bound to, in source order
TOOLS ==
  <<
    [schema |-> [name |-> "get_data_summary",
                 properties |-> {"sheet_name"},
                 required |-> {}],
     implementation |-> "get_data_summary"],
    [schema |-> [name |-> "read_rows",
                 properties |-> {"sheet_name", "offset", "limit"},
                 required |-> {}],
     implementation |-> "read_rows"],
    [schema |-> [name |-> "get_unique_values",
                 properties |-> {"column_name", "sheet_name"},
                 required |-> {"column_name"}],
     implementation |-> "get_unique_values"],
    [schema |-> [name |-> "column_aggregate",
                 properties |-> {"column_name", "aggregate_function", "sheet_name"},
                 required |-> {"column_name", "aggregate_function"}],
     implementation |-> "column_aggregate"],
    [schema |-> [name |-> "filter_rows",
                 properties |-> {"output_filename", "column_name", "operator", "value", "sheet_name"},
                 required |-> {"output_filename", "column_name", "operator", "value"}],
     implementation |-> "filter_rows"],
    [schema |-> [name |-> "sort_data",
                 properties |-> {"output_filename", "sort_by_column", "ascending", "sheet_name"},
                 required |-> {"output_filename", "sort_by_column"}],
     implementation |-> "sort_data"],
    [schema |-> [name |-> "add_column_from_formula",
                 properties |-> {"output_filename", "new_column_name", "col1", "operator", "col2", "sheet_name"},
                 required |-> {"output_filename", "new_column_name", "col1", "operator", "col2"}],
     implementation |-> "add_column_from_formula"],
    [schema |-> [name |-> "create_pivot_table",
                 properties |-> {"output_filename", "index_column", "columns_column", "values_column", "agg_func", "sheet_name"},
                 required |-> {"output_filename", "index_column", "columns_column", "values_column"}],
     implementation |-> "create_pivot_table"],
    [schema |-> [name |-> "create_chart",
                 properties |-> {"chart_type", "x_column", "y_column", "output_filename", "sheet_name"},
                 required |-> {"chart_type", "x_column", "y_column"}],
     implementation |-> "create_chart"],
    [schema |-> [name |-> "delete_columns",
                 properties |-> {"output_filename", "columns_to_delete", "sheet_name"},
                 required |-> {"output_filename", "columns_to_delete"}],
     implementation |-> "delete_columns"],
    [schema |-> [name |-> "rename_column",
                 properties |-> {"output_filename", "old_column_name", "new_column_name", "sheet_name"},
                 required |-> {"output_filename", "old_column_name", "new_column_name"}],
     implementation |-> "rename_column"],
    [schema |-> [name |-> "handle_duplicates",
                 properties |-> {"output_filename", "subset_columns", "action", "sheet_name"},
                 required |-> {"action"}],
     implementation |-> "handle_duplicates"],
    [schema |-> [name |-> "fill_missing_values",
                 properties |-> {"output_filename", "column_name", "fill_value", "sheet_name"},
                 required |-> {"output_filename", "column_name", "fill_value"}],
     implementation |-> "fill_missing_values"],
    [schema |-> [name |-> "string_manipulation_in_column",
                 properties |-> {"output_filename", "column_name", "operation", "sheet_name"},
                 required |-> {"output_filename", "column_name", "operation"}],
     implementation |-> "string_manipulation_in_column"],
    [schema |-> [name |-> "list_sheets",
                 properties |-> {},
                 required |-> {}],
     implementation |-> "list_sheets"],
    [schema |-> [name |-> "lookup_and_merge_columns",
                 properties |-> {"output_filename", "left_on_column", "right_file_path", "right_on_column", "columns_to_merge", "sheet_name", "right_sheet_name"},
                 required |-> {"output_filename", "left_on_column", "right_file_path", "right_on_column", "columns_to_merge"}],
     implementation |-> "lookup_and_merge_columns"],
    [schema |-> [name |-> "group_by_and_aggregate",
                 properties |-> {"output_filename", "group_by_column", "agg_column", "agg_functions", "sheet_name"},
                 required |-> {"output_filename", "group_by_column", "agg_column", "agg_functions"}],
     implementation |-> "group_by_and_aggregate"],
    [schema |-> [name |-> "conditional_value_column",
                 properties |-> {"output_filename", "new_column_name", "source_column", "operator", "value", "true_value", "false_value", "sheet_name"},
                 required |-> {"output_filename", "new_column_name", "source_column", "operator", "value", "true_value", "false_value"}],
     implementation |-> "conditional_value_column"],
    [schema |-> [name |-> "create_sheet",
                 properties |-> {"output_filename", "new_sheet_name"},
                 required |-> {"output_filename", "new_sheet_name"}],
     implementation |-> "create_sheet"],
    [schema |-> [name |-> "delete_sheet",
                 properties |-> {"output_filename", "sheet_to_delete"},
                 required |-> {"output_filename", "sheet_to_delete"}],
     implementation |-> "delete_sheet"],
    [schema |-> [name |-> "duplicate_sheet",
                 properties |-> {"output_filename", "source_sheet", "new_sheet_name"},
                 required |-> {"output_filename", "source_sheet", "new_sheet_name"}],
     implementation |-> "duplicate_sheet"],
    [schema |-> [name |-> "apply_conditional_formatting",
                 properties |-> {"output_filename", "column_name", "operator", "value", "color", "sheet_name"},
                 required |-> {"output_filename", "column_name", "operator", "value", "color"}],
     implementation |-> "apply_conditional_formatting"]
  >>

\* the signatures of the processor functions (inspect.signature): formal
\* parameters in order, the defaults, the output directory parameter the
\* function hands to _get_safe_path ("" for a read-only tool) and the prefix
\* its except clause puts before a wrapped error
Signatures ==
  {
    [def |-> "get_data_summary",
     formals |-> <<"file_path", "sheet_name">>,
     defaults |-> ("sheet_name" :> PyNone),
     out_dir |-> "",
     wrap |-> "An unexpected error occurred while getting data summary: "],
    [def |-> "read_rows",
     formals |-> <<"file_path", "sheet_name", "offset", "limit">>,
     defaults |-> ("sheet_name" :> PyNone) @@ ("offset" :> PyInt(1)) @@ ("limit" :> PyInt(5)),
     out_dir |-> "",
     wrap |-> "An unexpected error occurred while reading rows: "],
    [def |-> "column_aggregate",
     formals |-> <<"file_path", "column_name", "aggregate_function", "sheet_name">>,
     defaults |-> ("sheet_name" :> PyNone),
     out_dir |-> "",
     wrap |-> "An unexpected error occurred during aggregation: "],
    [def |-> "get_unique_values",
     formals |-> <<"file_path", "column_name", "sheet_name">>,
     defaults |-> ("sheet_name" :> PyNone),
     out_dir |-> "",
     wrap |-> "An unexpected error occurred while getting unique values: "],
    [def |-> "add_column_from_formula",
     formals |-> <<"file_path", "file_output_dir", "output_filename", "new_column_name", "col1", "operator", "col2", "sheet_name">>,
     defaults |-> ("sheet_name" :> PyNone),
     out_dir |-> "file_output_dir",
     wrap |-> "An unexpected error occurred while adding column: "],
    [def |-> "create_chart",
     formals |-> <<"file_path", "chart_output_dir", "chart_type", "x_column", "y_column", "output_filename", "sheet_name">>,
     defaults |-> ("output_filename" :> PyNone) @@ ("sheet_name" :> PyNone),
     out_dir |-> "chart_output_dir",
     wrap |-> "An unexpected error occurred while creating chart: "],
    [def |-> "filter_rows",
     formals |-> <<"file_path", "file_output_dir", "output_filename", "column_name", "operator", "value", "sheet_name">>,
     defaults |-> ("sheet_name" :> PyNone),
     out_dir |-> "file_output_dir",
     wrap |-> "An unexpected error occurred while filtering rows: "],
    [def |-> "sort_data",
     formals |-> <<"file_path", "file_output_dir", "output_filename", "sort_by_column", "ascending", "sheet_name">>,
     defaults |-> ("ascending" :> PyBool(TRUE)) @@ ("sheet_name" :> PyNone),
     out_dir |-> "file_output_dir",
     wrap |-> "An unexpected error occurred while sorting data: "],
    [def |-> "create_pivot_table",
     formals |-> <<"file_path", "file_output_dir", "output_filename", "index_column", "columns_column", "values_column", "agg_func", "sheet_name">>,
     defaults |-> ("agg_func" :> PyStr("sum")) @@ ("sheet_name" :> PyNone),
     out_dir |-> "file_output_dir",
     wrap |-> "An unexpected error occurred while creating pivot table: "],
    [def |-> "delete_columns",
     formals |-> <<"file_path", "file_output_dir", "output_filename", "columns_to_delete", "sheet_name">>,
     defaults |-> ("sheet_name" :> PyNone),
     out_dir |-> "file_output_dir",
     wrap |-> "An unexpected error occurred while deleting columns: "],
    [def |-> "rename_column",
     formals |-> <<"file_path", "file_output_dir", "output_filename", "old_column_name", "new_column_name", "sheet_name">>,
     defaults |-> ("sheet_name" :> PyNone),
     out_dir |-> "file_output_dir",
     wrap |-> "An unexpected error occurred while renaming column: "],
    [def |-> "handle_duplicates",
     formals |-> <<"file_path", "file_output_dir", "output_filename", "subset_columns", "action", "sheet_name">>,
     defaults |-> ("subset_columns" :> PyNone) @@ ("action" :> PyStr("find")) @@ ("sheet_name" :> PyNone),
     out_dir |-> "file_output_dir",
     wrap |-> "An unexpected error occurred while handling duplicates: "],
    [def |-> "fill_missing_values",
     formals |-> <<"file_path", "file_output_dir", "output_filename", "column_name", "fill_value", "sheet_name">>,
     defaults |-> ("sheet_name" :> PyNone),
     out_dir |-> "file_output_dir",
     wrap |-> "An unexpected error occurred while filling missing values: "],
    [def |-> "string_manipulation_in_column",
     formals |-> <<"file_path", "file_output_dir", "output_filename", "column_name", "operation", "sheet_name">>,
     defaults |-> ("sheet_name" :> PyNone),
     out_dir |-> "file_output_dir",
     wrap |-> "An unexpected error occurred during string manipulation: "],
    [def |-> "list_sheets",
     formals |-> <<"file_path">>,
     defaults |-> NoArgs,
     out_dir |-> "",
     wrap |-> "An unexpected error occurred while listing sheets: "],
    [def |-> "lookup_and_merge_columns",
     formals |-> <<"file_path", "file_output_dir", "output_filename", "left_on_column", "right_file_path", "right_on_column", "columns_to_merge", "sheet_name", "right_sheet_name">>,
     defaults |-> ("sheet_name" :> PyNone) @@ ("right_sheet_name" :> PyNone),
     out_dir |-> "file_output_dir",
     wrap |-> "An unexpected error occurred during the merge operation: "],
    [def |-> "group_by_and_aggregate",
     formals |-> <<"file_path", "file_output_dir", "output_filename", "group_by_column", "agg_column", "agg_functions", "sheet_name">>,
     defaults |-> ("sheet_name" :> PyNone),
     out_dir |-> "file_output_dir",
     wrap |-> "An unexpected error occurred during the group by operation: "],
    [def |-> "conditional_value_column",
     formals |-> <<"file_path", "file_output_dir", "output_filename", "new_column_name", "source_column", "operator", "value", "true_value", "false_value", "sheet_name">>,
     defaults |-> ("sheet_name" :> PyNone),
     out_dir |-> "file_output_dir",
     wrap |-> "An unexpected error occurred while creating conditional column: "],
    [def |-> "create_sheet",
     formals |-> <<"file_path", "file_output_dir", "output_filename", "new_sheet_name">>,
     defaults |-> NoArgs,
     out_dir |-> "file_output_dir",
     wrap |-> "An unexpected error occurred while creating the sheet: "],
    [def |-> "delete_sheet",
     formals |-> <<"file_path", "file_output_dir", "output_filename", "sheet_to_delete">>,
     defaults |-> NoArgs,
     out_dir |-> "file_output_dir",
     wrap |-> "An unexpected error occurred while deleting the sheet: "],
    [def |-> "duplicate_sheet",
     formals |-> <<"file_path", "file_output_dir", "output_filename", "source_sheet", "new_sheet_name">>,
     defaults |-> NoArgs,
     out_dir |-> "file_output_dir",
     wrap |-> "An unexpected error occurred while duplicating the sheet: "],
    [def |-> "apply_conditional_formatting",
     formals |-> <<"file_path", "file_output_dir", "output_filename", "column_name", "operator", "value", "color", "sheet_name">>,
     defaults |-> ("sheet_name" :> PyNone),
     out_dir |-> "file_output_dir",
     wrap |-> "An unexpected error occurred while applying conditional formatting: "]
  }

\* tools._TOOL_IMPLEMENTATIONS: {tool["schema"]["name"]: tool["implementation"]
\* for tool in TOOLS}; a later entry of the same name replaces an earlier one
TOOL_IMPLEMENTATIONS ==
  [n \in {TOOLS[k].schema.name : k \in DOMAIN TOOLS} |->
     LET last == CHOOSE k \in DOMAIN TOOLS :
                   /\ TOOLS[k].schema.name = n
                   /\ \A j \in DOMAIN TOOLS : TOOLS[j].schema.name = n => j <= k
     IN TOOLS[last].implementation]

\* the schemas listed from the last registered tool to the first
reversed_tool_schemas == [k \in DOMAIN TOOLS |-> TOOLS[Len(TOOLS) + 1 - k].schema]

\* tools.get_tool_schemas
get_tool_schemas == [k \in DOMAIN TOOLS |-> TOOLS[k].schema]

Signature(def) == CHOOSE sig \in Signatures : sig.def = def

\* sig.parameters.keys()
accepted_params(def) ==
  LET sig == Signature(def) IN {sig.formals[k] : k \in DOMAIN sig.formals}

\* the formal parameters that have no default: a call must supply them
NoDefault(def) == accepted_params(def) \ DOMAIN Signature(def).defaults

(***************************************************************************)
(* The spreadsheet tools (processor.py).  A tool reads the workbook at     *)
(* file_path through openpyxl or pandas; `env` is what the file system     *)
(* answers for one call: whether the file can be read, and its contents.   *)
(***************************************************************************)
\* a workbook: sheet titles, the cells of the header row of the active sheet
\* (text, or a number such as a year) and its data rows
Workbook(sheets, header, rows) == [sheets |-> sheets, header |-> header, rows |-> rows]

Range(q) == {q[k] : k \in DOMAIN q}

\* df[column] / the cells below a header cell
ColumnCells(wb, column) ==
  LET c == CHOOSE k \in DOMAIN wb.header : wb.header[k] = column
  IN [r \in DOMAIN wb.rows |-> wb.rows[r][c]]

\* the outcome of a tool call with its effects on the file system: whether
\* the input file was opened, and the set of paths written
Outcome(res, opened, written) ==
  [raised |-> res.raised, value |-> res.value, exc |-> res.exc,
   opened |-> opened, written |-> written]

\* Python's argument binding of tool_function(**kwargs): a formal parameter
\* without default that kwargs does not supply is a TypeError
MissingArguments(def, kwargs) == NoDefault(def) \ DOMAIN kwargs

\* a keyword argument that is no formal parameter is a TypeError too
UnexpectedArguments(def, kwargs) == DOMAIN kwargs \ accepted_params(def)

\* the parameters of the call: kwargs, the defaults for the rest
BoundArguments(def, kwargs) == kwargs @@ Signature(def).defaults

\* the argument names that must name a column of the sheet, per tool
ColumnArguments(def) ==
  CASE def \in {"column_aggregate", "get_unique_values", "filter_rows",
                "fill_missing_values", "string_manipulation_in_column",
                "apply_conditional_formatting"} -> {"column_name"}
    [] def = "sort_data" -> {"sort_by_column"}
    [] def = "add_column_from_formula" -> {"col1", "col2"}
    [] def = "create_chart" -> {"x_column", "y_column"}
    [] def = "create_pivot_table" -> {"index_column", "columns_column", "values_column"}
    [] def = "rename_column" -> {"old_column_name"}
    [] def = "lookup_and_merge_columns" -> {"left_on_column"}
    [] def = "group_by_and_aggregate" -> {"group_by_column", "agg_column"}
    [] def = "conditional_value_column" -> {"source_column"}
    [] OTHER -> {}

\* the values a tool's else branch / lookup rejects with a ValueError
CheckedArgument(def) ==
  CASE def = "filter_rows" ->
         [arg |-> "operator", allowed |-> {"==", "!=", ">", "<", ">=", "<=", "contains"},
          before |-> "Operator ", after |-> " not handled."]
    [] def = "conditional_value_column" ->
         [arg |-> "operator", allowed |-> {"==", "!=", ">", "<", ">=", "<=", "contains"},
          before |-> "Invalid operator '", after |-> "'."]
    [] def = "string_manipulation_in_column" ->
         [arg |-> "operation", allowed |-> {"uppercase", "lowercase", "trim"},
          before |-> "Invalid string operation '", after |-> "'."]
    [] def = "handle_duplicates" ->
         [arg |-> "action", allowed |-> {"find", "remove"},
          before |-> "Invalid action '", after |-> "'. Must be 'find' or 'remove'."]
    [] def = "apply_conditional_formatting" ->
         [arg |-> "color", allowed |-> {"red", "green", "yellow"},
          before |-> "Color '", after |-> "' is not supported. Use red, green, or yellow."]
    [] OTHER -> [arg |-> "", allowed |-> {}, before |-> "", after |-> ""]

\* the message of the ValueError a tool raises for a column that the sheet
\* does not have: c is the parameter, v its value
ColumnNotFound(def, c, v) ==
  CASE def \in {"add_column_from_formula", "create_chart", "filter_rows", "sort_data"} ->
         "Column not found."
    [] def \in {"rename_column", "fill_missing_values", "string_manipulation_in_column"} ->
         "Column '" \o PyFormat(v) \o "' not found in the file."
    [] def = "group_by_and_aggregate" /\ c = "group_by_column" ->
         "Group by column '" \o PyFormat(v) \o "' not found."
    [] def = "group_by_and_aggregate" ->
         "Aggregation column '" \o PyFormat(v) \o "' not found."
    [] def = "conditional_value_column" ->
         "Source column '" \o PyFormat(v) \o "' not found."
    [] def = "create_pivot_table" -> PyRepr(v)
    [] def = "lookup_and_merge_columns" ->
         "Left key column '" \o PyFormat(v) \o "' not found in the primary file."
    [] OTHER -> "Column '" \o PyFormat(v) \o "' not found."

\* the error the body of a tool raises inside its try block, "" when none:
\* a missing sheet, a missing column, a rejected operator / action / color
BodyError(def, a, wb) ==
  LET chk == CheckedArgument(def)
      badcols == {c \in ColumnArguments(def) :
                    a[c] \notin Range(wb.header)}
  IN
  IF "sheet_name" \in DOMAIN a /\ Truthy(a["sheet_name"])
       /\ ~(IsStr(a["sheet_name"]) /\ a["sheet_name"].s \in Range(wb.sheets))
    THEN "Sheet '" \o PyFormat(a["sheet_name"]) \o "' not found."
  ELSE IF def = "create_sheet" /\ IsStr(a["new_sheet_name"])
            /\ a["new_sheet_name"].s \in Range(wb.sheets)
    THEN "A sheet named '" \o a["new_sheet_name"].s \o "' already exists."
  ELSE IF def = "delete_sheet"
            /\ ~(IsStr(a["sheet_to_delete"]) /\ a["sheet_to_delete"].s \in Range(wb.sheets))
    THEN "Sheet '" \o PyFormat(a["sheet_to_delete"]) \o "' not found."
  ELSE IF def = "delete_sheet" /\ Len(wb.sheets) <= 1
    THEN "Cannot delete the only sheet in the workbook."
  ELSE IF def = "duplicate_sheet"
            /\ ~(IsStr(a["source_sheet"]) /\ a["source_sheet"].s \in Range(wb.sheets))
    THEN "Source sheet '" \o PyFormat(a["source_sheet"]) \o "' not found."
  ELSE IF def = "duplicate_sheet" /\ IsStr(a["new_sheet_name"])
            /\ a["new_sheet_name"].s \in Range(wb.sheets)
    THEN "A sheet named '" \o a["new_sheet_name"].s \o "' already exists."
  ELSE IF def = "delete_columns"
            /\ ~(a["columns_to_delete"].t = "list"
                 /\ \E k \in DOMAIN a["columns_to_delete"].items :
                      a["columns_to_delete"].items[k] \in Range(wb.header))
    THEN "None of the specified columns " \o PyFormat(a["columns_to_delete"])
           \o " exist in the file."
  ELSE IF badcols # {}
    THEN LET c == IF "group_by_column" \in badcols THEN "group_by_column"
                  ELSE CHOOSE c \in badcols : TRUE
         IN ColumnNotFound(def, c, a[c])
  ELSE IF chk.arg # "" /\ ~(IsStr(a[chk.arg]) /\ a[chk.arg].s \in chk.allowed)
    THEN chk.before \o PyFormat(a[chk.arg]) \o chk.after
  ELSE ""

\* values.count(): the number of values, not their sum
CountSeq(q) == Len(q)

RECURSIVE SumSeq(_)
SumSeq(q) == IF q = <<>> THEN 0 ELSE q[1] + SumSeq(Tail(q))
MinSeq(q) == CHOOSE m \in Range(q) : \A n \in Range(q) : m <= n
MaxSeq(q) == CHOOSE m \in Range(q) : \A n \in Range(q) : m >= n
RECURSIVE GCD(_, _)
GCD(m, n) == IF n = 0 THEN (IF m < 0 THEN -m ELSE m) ELSE GCD(n, m % n)

\* float(num / den), kept as a fraction in lowest terms
Float(num, den) ==
  LET g == GCD(num, den) IN IF g = 0 THEN PyFloat(0, 1) ELSE PyFloat(num \div g, den \div g)

\* pd.to_numeric(cells, errors='coerce').dropna() on cells that are numbers
\* or non-numeric text
NumericValues(cells) ==
  LET kept == SelectSeq(cells, LAMBDA c : c.t = "int")
  IN [k \in DOMAIN kept |-> kept[k].n]

\* processor.column_aggregate, the value it returns once the column is found
column_aggregate(a, wb) ==
  LET values == NumericValues(ColumnCells(wb, a["column_name"]))
      aggregate_function == a["aggregate_function"]
      result ==
        IF ~IsStr(aggregate_function) THEN Float(0, 1)
        ELSE CASE aggregate_function.s = "sum" -> Float(SumSeq(values), 1)
               [] aggregate_function.s = "mean" -> Float(SumSeq(values), Len(values))
               [] aggregate_function.s = "min" -> Float(MinSeq(values), 1)
               [] aggregate_function.s = "max" -> Float(MaxSeq(values), 1)
               [] OTHER -> Float(0, 1)
  IN IF values = <<>>
       THEN PyDict(("result" :> PyNone) @@ ("processed_rows" :> PyInt(0)))
       ELSE PyDict(("result" :> result) @@ ("processed_rows" :> PyInt(Len(values))))

\* the rows of the sheet as iter_rows(values_only=True) yields them: the
\* header row, then the data rows
SheetRows(wb) == <<wb.header>> \o wb.rows

\* dict(zip(header, row)): the keys are the header cells
RowRecord(wb, row) ==
  LET m == [h \in {KeyText(c) : c \in Range(wb.header)} |->
              row[CHOOSE k \in DOMAIN wb.header : KeyText(wb.header[k]) = h]]
      keys == [h \in DOMAIN m |-> CHOOSE c \in Range(wb.header) : KeyText(c) = h]
  IN IF \A c \in Range(wb.header) : IsStr(c) THEN PyDict(m) ELSE PyKeyedDict(keys, m)

Min2(m, n) == IF m <= n THEN m ELSE n

\* processor.read_rows, the value it returns: sheet rows offset + 1 ..
\* offset + limit (offset >= 0)
read_rows(a, wb) ==
  LET min_row_to_read == a["offset"].n + 1
      max_row_to_read == Min2(min_row_to_read + a["limit"].n - 1, Len(SheetRows(wb)))
      count == IF max_row_to_read >= min_row_to_read
                 THEN max_row_to_read - min_row_to_read + 1 ELSE 0
  IN PyList([k \in 1..count |-> RowRecord(wb, SheetRows(wb)[min_row_to_read + k - 1])])

\* the distinct cells of a column, in order of first appearance
RECURSIVE Unique(_)
Unique(q) ==
  IF q = <<>> THEN <<>>
  ELSE LET front == Unique(SubSeq(q, 1, Len(q) - 1))
       IN IF q[Len(q)] \in Range(front) THEN front ELSE Append(front, q[Len(q)])

\* the value a tool returns when its body raises nothing; final_output_path
\* is the path _get_safe_path returned ("" for a read-only tool)
SuccessValue(def, a, env, final_output_path) ==
  LET wb == env.wb
      ok == "success" :> PyBool(TRUE)
      file == "output_file" :> PyStr(final_output_path)
      matched == PyInt(env.matched)
  IN
  CASE def = "get_data_summary" ->
         PyDict(("sheet_name" :> PyStr(wb.sheets[1]))
                @@ ("total_rows" :> PyInt(Len(SheetRows(wb))))
                @@ ("header_columns" :> PyList(SheetRows(wb)[1])))
    [] def = "read_rows" -> read_rows(a, wb)
    [] def = "column_aggregate" -> column_aggregate(a, wb)
    [] def = "get_unique_values" ->
         LET unique_values == Unique(ColumnCells(wb, a["column_name"]))
         IN PyDict(("unique_values" :> PyList(unique_values))
                   @@ ("count" :> PyInt(Len(unique_values))))
    [] def = "list_sheets" ->
         PyDict(ok @@ ("sheet_names" :>
                         PyList([k \in DOMAIN wb.sheets |-> PyStr(wb.sheets[k])])))
    [] def = "create_chart" -> PyDict(ok @@ ("chart_path" :> PyStr(final_output_path)))
    [] def \in {"filter_rows", "lookup_and_merge_columns", "group_by_and_aggregate"} ->
         PyDict(ok @@ file @@ ("rows_written" :> matched))
    [] def = "conditional_value_column" ->
         PyDict(ok @@ file @@ ("rows_written" :> PyInt(Len(wb.rows))))
    [] def = "delete_columns" ->
         PyDict(ok @@ file @@ ("deleted_columns" :> a["columns_to_delete"]))
    [] def = "rename_column" ->
         PyDict(ok @@ file @@ ("renamed_from" :> a["old_column_name"])
                @@ ("renamed_to" :> a["new_column_name"]))
    [] def = "handle_duplicates" ->
         IF a["action"].s = "find"
           THEN PyDict(ok @@ ("action" :> PyStr("find"))
                       @@ ("duplicates_found" :> matched)
                       @@ ("duplicate_rows" :>
                             PyList([k \in 1..Min2(env.matched, Len(wb.rows)) |->
                                       RowRecord(wb, wb.rows[k])])))
           ELSE PyDict(ok @@ ("action" :> PyStr("remove")) @@ file
                       @@ ("duplicates_removed" :> matched))
    [] def = "fill_missing_values" ->
         PyDict(ok @@ file @@ ("filled_column" :> a["column_name"]))
    [] def = "string_manipulation_in_column" ->
         PyDict(ok @@ file @@ ("manipulated_column" :> a["column_name"])
                @@ ("operation" :> a["operation"]))
    [] def = "create_sheet" ->
         PyDict(ok @@ file @@ ("created_sheet_name" :> a["new_sheet_name"]))
    [] def = "delete_sheet" ->
         PyDict(ok @@ file @@ ("deleted_sheet_name" :> a["sheet_to_delete"]))
    [] def = "duplicate_sheet" ->
         PyDict(ok @@ file @@ ("duplicated_from" :> a["source_sheet"])
                @@ ("duplicated_to" :> a["new_sheet_name"]))
    [] def = "apply_conditional_formatting" ->
         PyDict(ok @@ file @@ ("formatted_column" :> a["column_name"]))
    [] OTHER -> PyDict(ok @@ file)

\* the tool saves a file at final_output_path when its body succeeds
SavesFile(def, a) ==
  /\ Signature(def).out_dir # ""
  /\ ~(def = "handle_duplicates" /\ a["action"] = PyStr("find"))

\* the processor function `def` called with the keyword arguments kwargs
tool_function(def, kwargs, env) ==
  IF MissingArguments(def, kwargs) # {}
    THEN Outcome(Raise("TypeError", def \o "() missing required positional argument"),
                 FALSE, {})
  ELSE IF UnexpectedArguments(def, kwargs) # {}
    THEN Outcome(Raise("TypeError", def \o "() got an unexpected keyword argument"),
                 FALSE, {})
  ELSE
    LET sig == Signature(def)
        a == BoundArguments(def, kwargs)
        output_filename ==
          IF def = "create_chart" /\ a["output_filename"] = PyNone
            THEN PyStr("chart_" \o env.now \o ".png")
            ELSE a["output_filename"]
        safe == IF sig.out_dir = "" THEN Return(PyStr(""))
                ELSE get_safe_path(a[sig.out_dir], output_filename)
        error == BodyError(def, a, env.wb)
    IN
    IF safe.raised THEN Outcome(safe, FALSE, {})
    ELSE IF env.io # "ok"
      THEN Outcome(Raise("Exception", sig.wrap \o "[Errno 2] No such file or directory: '"
                                        \o PyFormat(a["file_path"]) \o "'"), TRUE, {})
    ELSE IF error # ""
      THEN Outcome(Raise("Exception", sig.wrap \o error), TRUE, {})
    ELSE Outcome(Return(SuccessValue(def, a, env, safe.value.s)), TRUE,
                 IF SavesFile(def, a) THEN {safe.value.s} ELSE {})

\* a merge in which the context wins over the declared parameters
context_wins(context, parameters) == context @@ parameters

\* execute_tool line 699: {**context, **parameters}
full_params(context, parameters) == parameters @@ context

\* a merge passed on without the filter
unfiltered(full, accepted) == full

\* execute_tool line 702: {k: v for k, v in full_params.items() if k in accepted_params}
params_to_pass(full, accepted) == [k \in DOMAIN full \cap accepted |-> full[k]]

\* execute_tool line 689: tool_name not in _TOOL_IMPLEMENTATIONS
NotRegistered(tool_name) ==
  ~(IsStr(tool_name) /\ tool_name.s \in DOMAIN TOOL_IMPLEMENTATIONS)

\* what execute_tool did: its outcome, and the implementation calls it made
\* (none, or one with the keyword arguments passed)
Dispatched(out, calls) ==
  [raised |-> out.raised, value |-> out.value, exc |-> out.exc,
   opened |-> out.opened, written |-> out.written, calls |-> calls]

\* a lookup _TOOL_IMPLEMENTATIONS[tool_name] without the membership test
UnknownToolKeyError(tool_name) == Raise("KeyError", PyRepr(tool_name))

\* execute_tool line 690: the observation for a name that is not registered
UnknownTool(tool_name) ==
  Return(PyDict("error" :> PyStr("Tool '" \o PyFormat(tool_name) \o "' does not exist.")))

\* tools.execute_tool(tool_name, parameters, context); env is the file
\* system the implementation meets
execute_tool(tool_name, parameters, context, env) ==
  IF ~Hashable(tool_name)
    THEN Dispatched(Outcome(Raise("TypeError", "unhashable type: '" \o tool_name.t \o "'"),
                            FALSE, {}), <<>>)
  ELSE IF NotRegistered(tool_name)
    THEN Dispatched(Outcome(UnknownTool(tool_name), FALSE, {}), <<>>)
  ELSE
    LET tool_def == TOOL_IMPLEMENTATIONS[tool_name.s]
        accepted == accepted_params(tool_def)
    IN
    IF ~IsDict(parameters)
      THEN Dispatched(Outcome(Raise("TypeError", "'" \o parameters.t
                                      \o "' object is not a mapping"), FALSE, {}), <<>>)
    ELSE
      LET kwargs == params_to_pass(full_params(context, parameters.m), accepted)
      IN Dispatched(tool_function(tool_def, kwargs, env),
                    <<[def |-> tool_def, kwargs |-> kwargs]>>)

(***************************************************************************)
(* Text: json.dumps / json.loads and the f-strings of the transcript       *)
(***************************************************************************)
\* the str that is the JSON document of the JSON value v
JsonText(v) == [t |-> "json_str", json |-> v]

\* f"Observation: {observation}"
ObservationText(observation) == [t |-> "fstr", prefix |-> "Observation: ", arg |-> observation]

RECURSIVE Serializable(_)
\* json.dumps accepts v: None, bool, int, float, str, and lists and dicts of such
Serializable(v) ==
  CASE v.t \in {"null", "bool", "int", "float", "str", "json_str"} -> TRUE
    [] v.t = "list" -> \A k \in DOMAIN v.items : Serializable(v.items[k])
    [] v.t = "dict" ->
         /\ \A k \in DOMAIN v.m : Serializable(v.m[k])
         /\ "keys" \in DOMAIN v =>
              \A k \in DOMAIN v.keys : v.keys[k].t \in {"str", "int", "float", "bool", "null"}
    [] OTHER -> FALSE

RECURSIVE JsonValue(_)
\* the JSON value json.dumps writes for the Python value v: the keys of an
\* object are strings, an int, bool or None key is written as its text
JsonValue(v) ==
  CASE v.t = "list" -> PyList([k \in DOMAIN v.items |-> JsonValue(v.items[k])])
    [] v.t = "dict" -> PyDict([k \in DOMAIN v.m |-> JsonValue(v.m[k])])
    [] OTHER -> v

\* json.dumps(v)
json_dumps(v) ==
  IF Serializable(v) THEN Return(JsonText(JsonValue(v)))
  ELSE Raise("TypeError", "Object of type datetime is not JSON serializable")

\* a parser that reads text that is no JSON document as an empty object
json_loads_lenient(text) ==
  Return(IF text.t = "json_str" THEN text.json ELSE PyDict(NoArgs))

\* json.loads(text)
json_loads(text) ==
  IF text.t = "json_str" THEN Return(text.json)
  ELSE Raise("JSONDecodeError", "Expecting value: line 1 column 1 (char 0)")

\* d.get(key, default) on a dict
get(d, key, default) == IF key \in DOMAIN d.m THEN d.m[key] ELSE default

(***************************************************************************)
(* The agent loop (agent.run_agent_task), one record of state per task     *)
(***************************************************************************)
VARIABLES
  pc,                    \* where each task is in the loop
  i,                     \* the loop variable of `for i in range(max_steps)`
  conversation_history,  \* the transcript
  steps,
  observations,
  tool_context,
  current_step,
  observation_dict,
  result,                \* <<>> while running, <<the returned dict>> after
  llm_calls,             \* number of _call_llm calls made
  dispatches,            \* number of tools.execute_tool calls made
  invocations,           \* the implementation calls made, in order
  files,                 \* the paths written under the output directories
  disk,                  \* what each task's tools meet at file_path
  call,                  \* dispatcher alone: the arguments of one execute_tool call
  ret                    \* dispatcher alone: <<>>, then <<what the call did>>

vars == <<pc, i, conversation_history, steps, observations, tool_context,
          current_step, observation_dict, result, llm_calls, dispatches,
          invocations, files, disk, call, ret>>

agent_vars == <<pc, i, conversation_history, steps, observations, tool_context,
                current_step, observation_dict, result, llm_calls, dispatches,
                invocations, files, disk>>

\* agent.py line 48
max_steps == 5

\* a range that includes its end
range_inclusive(n) == 0..n

\* range(n)
range(n) == 0..(n - 1)

Tasks == DOMAIN pc

Turn(role, content) == [role |-> role, content |-> content]

\* agent._create_system_prompt: the prompt text around json.dumps(tool_schemas)
create_system_prompt == [t |-> "system_prompt", tools_schema_str |-> get_tool_schemas]

\* the arguments of one run_agent_task call
TaskInput(user_input, file_path, chart_output_dir, file_output_dir) ==
  [user_input |-> user_input, file_path |-> file_path,
   chart_output_dir |-> chart_output_dir, file_output_dir |-> file_output_dir]

\* run_agent_task lines 32-36: the transcript at task start
InitialHistory(in) ==
  << Turn("system", create_system_prompt),
     Turn("user", PyStr("User Request: \"" \o in.user_input
                          \o "\"\nFile to be used: \"" \o in.file_path \o "\"")) >>

\* run_agent_task lines 42-46
ToolContext(in) ==
  ("file_path" :> PyStr(in.file_path))
  @@ ("chart_output_dir" :> PyStr(in.chart_output_dir))
  @@ ("file_output_dir" :> PyStr(in.file_output_dir))

\* a start in which tool_context is one module-level dict that every task
\* reads: the context of one of the tasks
SharedContextInit(inputs, envs) ==
  /\ pc = [t \in DOMAIN inputs |-> "AWAITING_LLM"]
  /\ i = [t \in DOMAIN inputs |-> 0]
  /\ conversation_history = [t \in DOMAIN inputs |-> InitialHistory(inputs[t])]
  /\ steps = [t \in DOMAIN inputs |-> <<>>]
  /\ observations = [t \in DOMAIN inputs |-> <<>>]
  /\ tool_context = [t \in DOMAIN inputs |->
                       ToolContext(inputs[CHOOSE u \in DOMAIN inputs : TRUE])]
  /\ current_step = [t \in DOMAIN inputs |-> PyDict(NoArgs)]
  /\ observation_dict = [t \in DOMAIN inputs |-> PyNone]
  /\ result = [t \in DOMAIN inputs |-> <<>>]
  /\ llm_calls = [t \in DOMAIN inputs |-> 0]
  /\ dispatches = [t \in DOMAIN inputs |-> 0]
  /\ invocations = [t \in DOMAIN inputs |-> <<>>]
  /\ files = <<>>
  /\ disk \in [DOMAIN inputs -> envs]

\* the state of the tasks `inputs` (task id -> arguments) after lines 30-48
AgentInit(inputs, envs) ==
  /\ pc = [t \in DOMAIN inputs |-> "AWAITING_LLM"]
  /\ i = [t \in DOMAIN inputs |-> 0]
  /\ conversation_history = [t \in DOMAIN inputs |-> InitialHistory(inputs[t])]
  /\ steps = [t \in DOMAIN inputs |-> <<>>]
  /\ observations = [t \in DOMAIN inputs |-> <<>>]
  /\ tool_context = [t \in DOMAIN inputs |-> ToolContext(inputs[t])]
  /\ current_step = [t \in DOMAIN inputs |-> PyDict(NoArgs)]
  /\ observation_dict = [t \in DOMAIN inputs |-> PyNone]
  /\ result = [t \in DOMAIN inputs |-> <<>>]
  /\ llm_calls = [t \in DOMAIN inputs |-> 0]
  /\ dispatches = [t \in DOMAIN inputs |-> 0]
  /\ invocations = [t \in DOMAIN inputs |-> <<>>]
  /\ files = <<>>
  /\ disk \in [DOMAIN inputs -> envs]

\* an except clause that names json.JSONDecodeError alone
except_JSONDecodeError(exc) == exc.type = "JSONDecodeError"

\* run_agent_task line 88: `except Exception` catches every exception the
\* loop body raises
except_Exception(exc) == TRUE

\* a return statement of run_agent_task
Returns(t, answer, new_steps) ==
  /\ pc' = [pc EXCEPT ![t] = "DONE"]
  /\ result' = [result EXCEPT ![t] =
                  <<[answer |-> answer, steps |-> new_steps,
                     observations |-> observations[t]]>>]

\* an exception raised inside the try block: lines 88-90 return the degraded
\* answer; an exception the except clause does not catch leaves the function
Fails(t, exc) ==
  IF except_Exception(exc)
    THEN Returns(t, PyStr("I encountered an unexpected error."), steps[t])
    ELSE /\ pc' = [pc EXCEPT ![t] = "RAISED"]
         /\ result' = result

\* an assignment to the last element of the transcript, history[-1] = turn
replace_last_turn(history, role, content) ==
  [history EXCEPT ![Len(history)] = Turn(role, content)]

\* lines 54 and 86: conversation_history.append({"role": ..., "content": ...})
add_turn(history, role, content) == Append(history, Turn(role, content))

\* lines 53-54: the LLM call; on a response, the assistant turn is appended
CallLLM(t, outcomes) ==
  /\ pc[t] = "AWAITING_LLM"
  /\ i[t] \in range(max_steps)
  /\ llm_calls' = [llm_calls EXCEPT ![t] = @ + 1]
  /\ \E r \in outcomes :
       IF r.raised
         THEN /\ Fails(t, r.exc)
              /\ UNCHANGED conversation_history
         ELSE /\ conversation_history' =
                   [conversation_history EXCEPT ![t] = add_turn(@, "assistant", r.value)]
              /\ pc' = [pc EXCEPT ![t] = "PARSING"]
              /\ UNCHANGED result
  /\ UNCHANGED <<i, steps, observations, tool_context, current_step, observation_dict,
                 dispatches, invocations, files, disk>>

\* a test of the value under final_answer rather than of the key
FinalAnswerTruthy(llm_response) == Truthy(get(llm_response, "final_answer", PyNone))

\* a test that lets a tool_call in the same decision take precedence
FinalAnswerWithoutToolCall(llm_response) ==
  "final_answer" \in DOMAIN llm_response.m /\ "tool_call" \notin DOMAIN llm_response.m

\* line 61: "final_answer" in llm_response
FinalAnswerPresent(llm_response) == "final_answer" \in DOMAIN llm_response.m

\* list.insert(0, item)
prepend(list, item) == <<item>> \o list

\* list.append(item), lines 82 and 85
append(list, item) == Append(list, item)

\* lines 55-72: parse the response and decide
Parse(t) ==
  /\ pc[t] = "PARSING"
  /\ LET llm_response_str == conversation_history[t][Len(conversation_history[t])].content
         parsed == json_loads(llm_response_str)
         llm_response == parsed.value
         thought == get(llm_response, "thought", PyStr("(No thought provided)"))
         tool_call == get(llm_response, "tool_call", PyNone)
         no_get(v) == [type |-> "AttributeError",
                       msg |-> "'" \o v.t \o "' object has no attribute 'get'"]
     IN
     IF parsed.raised
       THEN Fails(t, parsed.exc) /\ UNCHANGED <<steps, current_step>>
     ELSE IF ~IsDict(llm_response)
       THEN Fails(t, no_get(llm_response)) /\ UNCHANGED <<steps, current_step>>
     ELSE IF FinalAnswerPresent(llm_response)
       THEN /\ current_step' = [current_step EXCEPT ![t] = PyDict("thought" :> thought)]
            /\ steps' = [steps EXCEPT ![t] = append(@, PyDict("thought" :> thought))]
            /\ Returns(t, llm_response.m["final_answer"], steps'[t])
     ELSE IF ~Truthy(tool_call)
       THEN /\ current_step' = [current_step EXCEPT ![t] = PyDict("thought" :> thought)]
            /\ Returns(t, PyStr("I am not sure how to proceed."), steps[t])
            /\ UNCHANGED steps
     ELSE
       /\ current_step' = [current_step EXCEPT ![t] =
                             PyDict(("thought" :> thought) @@ ("tool_call" :> tool_call))]
       /\ UNCHANGED steps
       /\ IF ~IsDict(tool_call)
            THEN Fails(t, no_get(tool_call))
            ELSE pc' = [pc EXCEPT ![t] = "DISPATCHING"] /\ UNCHANGED result
  /\ UNCHANGED <<i, conversation_history, observations, tool_context, observation_dict,
                 llm_calls, dispatches, invocations, files, disk>>

\* what a tool call writes into its output file: the data of the workbook at
\* file_path, as transformed by the processor function
written_by(calls) ==
  IF calls = <<>> THEN <<>>
  ELSE [def |-> calls[1].def, file_path |-> calls[1].kwargs["file_path"]]

\* a save that leaves a file that already exists as it is
keep_existing(on_disk, paths, content) ==
  [p \in DOMAIN on_disk \cup paths |-> IF p \in DOMAIN on_disk THEN on_disk[p] ELSE content]

\* df.to_excel(final_output_path) / workbook.save(...) / plt.savefig(...):
\* the file at the path is created, or replaced when it exists
save(on_disk, paths, content) ==
  [p \in DOMAIN on_disk \cup paths |-> IF p \in paths THEN content ELSE on_disk[p]]

\* a merge written into the caller's dict, context.update(parameters), on the
\* path of a registered tool
arguments_merged_in_place(tool_name, parameters, context) ==
  [context |-> IF Hashable(tool_name) /\ ~NotRegistered(tool_name) /\ IsDict(parameters)
                 THEN full_params(context, parameters.m)
                 ELSE context,
   parameters |-> parameters]

\* the caller's two dicts after execute_tool(tool_name, parameters, context):
\* tools.py lines 699 and 702 build new dicts ({**context, **parameters} and a
\* dict comprehension) and line 704 passes the entries as keyword arguments,
\* so neither dict is written
arguments_after(tool_name, parameters, context) ==
  [context |-> context, parameters |-> parameters]

\* execute_tool called outside any try of its own
uncaught_execute_tool(tool_name, parameters, context, env) ==
  execute_tool(tool_name, parameters, context, env)

\* lines 75-79: execute_tool inside its own try; an exception becomes an
\* error observation
try_execute_tool(tool_name, parameters, context, env) ==
  LET out == execute_tool(tool_name, parameters, context, env)
  IN IF out.raised
       THEN [out EXCEPT !.raised = FALSE, !.exc = NoExc,
                        !.value = PyDict("error" :> PyStr("Tool '" \o PyFormat(tool_name)
                                           \o "' failed with error: " \o out.exc.msg))]
       ELSE out

\* lines 71-79: dispatch the tool call of the current step
Dispatch(t) ==
  /\ pc[t] = "DISPATCHING"
  /\ LET tool_call == current_step[t].m["tool_call"]
         tool_name == get(tool_call, "tool_name", PyNone)
         parameters == get(tool_call, "parameters", PyDict(NoArgs))
     IN   LET out == try_execute_tool(tool_name, parameters, tool_context[t], disk[t])
              after == arguments_after(tool_name, parameters, tool_context[t])
          IN /\ dispatches' = [dispatches EXCEPT ![t] = @ + 1]
             /\ tool_context' = [tool_context EXCEPT ![t] = after.context]
             \* parameters is the dict held by current_step["tool_call"]
             /\ current_step' =
                  [current_step EXCEPT ![t] =
                     IF "parameters" \in DOMAIN tool_call.m
                       THEN PyDict([@.m EXCEPT !["tool_call"] =
                              PyDict([tool_call.m EXCEPT !["parameters"] = after.parameters])])
                       ELSE @]
             /\ invocations' = [invocations EXCEPT ![t] = @ \o out.calls]
             /\ files' = save(files, out.written, written_by(out.calls))
             /\ IF out.raised
                  THEN Fails(t, out.exc) /\ UNCHANGED observation_dict
                  ELSE /\ observation_dict' = [observation_dict EXCEPT ![t] = out.value]
                       /\ pc' = [pc EXCEPT ![t] = "APPENDING"]
                       /\ UNCHANGED result
  /\ UNCHANGED <<i, conversation_history, steps, observations, llm_calls, disk>>

\* lines 81-86: serialize the observation and append it to observations,
\* steps and the transcript; then the next iteration
AppendObservation(t) ==
  /\ pc[t] = "APPENDING"
  /\ LET dumped == json_dumps(observation_dict[t])
         observation == dumped.value
         step == PyDict(current_step[t].m @@ ("observation" :> observation))
     IN
     IF dumped.raised
       THEN /\ Fails(t, dumped.exc)
            /\ UNCHANGED <<i, conversation_history, steps, observations, current_step>>
       ELSE /\ observations' = [observations EXCEPT ![t] = append(@, observation_dict[t])]
            /\ current_step' = [current_step EXCEPT ![t] = step]
            /\ steps' = [steps EXCEPT ![t] = append(@, step)]
            /\ conversation_history' =
                 [conversation_history EXCEPT ![t] =
                    add_turn(@, "user", ObservationText(observation))]
            /\ i' = [i EXCEPT ![t] = @ + 1]
            /\ pc' = [pc EXCEPT ![t] = "AWAITING_LLM"]
            /\ UNCHANGED result
  /\ UNCHANGED <<tool_context, observation_dict, llm_calls, dispatches, invocations, files,
                 disk>>

\* line 92: the for loop ran out
Exhausted(t) ==
  /\ pc[t] = "AWAITING_LLM"
  /\ i[t] \notin range(max_steps)
  /\ Returns(t, PyStr("I seem to be stuck in a loop."), steps[t])
  /\ UNCHANGED <<i, conversation_history, steps, observations, tool_context, current_step,
                 observation_dict, llm_calls, dispatches, invocations, files, disk>>

(***************************************************************************)
(* The environment: workbooks on disk and the LLM                          *)
(***************************************************************************)
\* a single-sheet workbook with a text column and a numeric column
Sales ==
  Workbook(<<"Sheet1">>, <<PyStr("Region"), PyStr("Revenue")>>,
           << <<PyStr("North"), PyInt(10)>>,
              <<PyStr("South"), PyInt(20)>>,
              <<PyStr("East"), PyInt(30)>> >>)

\* a workbook whose first column holds dates (openpyxl reads them as datetime)
Dated ==
  Workbook(<<"Sheet1">>, <<PyStr("Date"), PyStr("Revenue")>>,
           << <<PyDatetime, PyInt(10)>>, <<PyDatetime, PyInt(20)>>, <<PyDatetime, PyInt(30)>> >>)

\* a workbook whose second header cell is the number 2024
Yearly ==
  Workbook(<<"Sheet1">>, <<PyStr("Region"), PyInt(2024)>>,
           << <<PyStr("North"), PyInt(10)>>, <<PyStr("South"), PyInt(20)>> >>)

Env(io, wb) == [io |-> io, wb |-> wb, matched |-> 2, now |-> "1700000000"]

\* what the tools of a task may meet at file_path
LoopEnvs == {Env("ok", Sales), Env("error", Sales), Env("ok", Dated)}

Thought == "thought" :> PyStr("I should look at the data.")

ToolCall(tool_name, parameters) ==
  "tool_call" :> PyDict(("tool_name" :> tool_name) @@ ("parameters" :> parameters))

\* the tool calls the LLM asks for in the agent loop
LLMToolCalls ==
  { \* the summary of the file, the usual first step
    ToolCall(PyStr("get_data_summary"), PyDict(NoArgs)),
    \* a read-only tool, parameters as the schema asks
    ToolCall(PyStr("column_aggregate"),
             PyDict(("column_name" :> PyStr("Revenue"))
                    @@ ("aggregate_function" :> PyStr("mean")))),
    \* a tool whose result carries cell values, called with a key of the
    \* context among its parameters
    ToolCall(PyStr("read_rows"), PyDict("file_output_dir" :> PyStr("/tmp"))),
    \* a write tool
    ToolCall(PyStr("sort_data"),
             PyDict(("output_filename" :> PyStr("sorted.xlsx"))
                    @@ ("sort_by_column" :> PyStr("Revenue")))),
    \* a write tool, with a traversal filename
    ToolCall(PyStr("sort_data"),
             PyDict(("output_filename" :> PyStr("../evil.xlsx"))
                    @@ ("sort_by_column" :> PyStr("Revenue")))),
    \* a name that is not registered
    ToolCall(PyStr("make_coffee"), PyDict(NoArgs)),
    \* no tool_name and no parameters
    "tool_call" :> PyDict("tool" :> PyStr("read_rows")) }

\* the decisions that end the task
LLMTerminalDecisions ==
  { Thought @@ ("final_answer" :> PyStr("The average is 20.0.")),
    "final_answer" :> PyNone,
    Thought @@ ("final_answer" :> PyStr("")),
    Thought @@ ("final_answer" :> PyStr("Done."))
            @@ ToolCall(PyStr("read_rows"), PyDict(NoArgs)),
    Thought,
    Thought @@ ("tool_call" :> PyNone),
    Thought @@ ("tool_call" :> PyDict(NoArgs)),
    Thought @@ ("tool_call" :> PyStr("read_rows")),
    Thought @@ ("final_answer" :> PyStr("Done.")) @@ ("tool_call" :> PyStr("read_rows")) }

\* what _call_llm does: it returns the text of a decision, text that is a
\* JSON document but no object, text that is no JSON document, or it raises
LLMOutcomes ==
  {Return(JsonText(PyDict(Thought @@ c))) : c \in LLMToolCalls}
  \cup {Return(JsonText(PyDict(d))) : d \in LLMTerminalDecisions}
  \cup { Return(JsonText(PyList(<<PyStr("final_answer")>>))),
         Return(JsonText(PyStr("final_answer"))),
         Return(PyStr("Sure! Here is my plan: {")),
         Raise("APIConnectionError", "Connection error.") }

\* the arguments the web server hands to run_agent_task (web_server.py 75-81)
WebTask == TaskInput("What is the average of column Revenue?", "/app/uploads/sales.xlsx",
                     "/app/static/charts", "/app/static/outputs")

NoCall == <<>>

Init ==
  /\ AgentInit("t1" :> WebTask, LoopEnvs)
  /\ call = NoCall
  /\ ret = <<>>

RequestLLM == \E t \in Tasks : CallLLM(t, LLMOutcomes) /\ UNCHANGED <<call, ret>>
ParseResponse == \E t \in Tasks : Parse(t) /\ UNCHANGED <<call, ret>>
DispatchTool == \E t \in Tasks : Dispatch(t) /\ UNCHANGED <<call, ret>>
RecordObservation == \E t \in Tasks : AppendObservation(t) /\ UNCHANGED <<call, ret>>
LoopExhausted == \E t \in Tasks : Exhausted(t) /\ UNCHANGED <<call, ret>>

Next ==
  \/ RequestLLM
  \/ ParseResponse
  \/ DispatchTool
  \/ RecordObservation
  \/ LoopExhausted

Spec == Init /\ [][Next]_vars

(***************************************************************************)
(* The dispatcher alone: execute_tool applied to one call                  *)
(***************************************************************************)
\* the most keys beside the schema's and the context's that a call declares
MaxExtraKeys == 2

\* a value for every parameter name of the schemas, valid for the Sales workbook
SampleParameters ==
  ("sheet_name" :> PyStr("Sheet1")) @@ ("offset" :> PyInt(1)) @@ ("limit" :> PyInt(2))
  @@ ("column_name" :> PyStr("Revenue")) @@ ("aggregate_function" :> PyStr("mean"))
  @@ ("output_filename" :> PyStr("out.xlsx")) @@ ("operator" :> PyStr(">"))
  @@ ("value" :> PyInt(15)) @@ ("sort_by_column" :> PyStr("Revenue"))
  @@ ("ascending" :> PyBool(FALSE)) @@ ("new_column_name" :> PyStr("Total"))
  @@ ("col1" :> PyStr("Revenue")) @@ ("col2" :> PyStr("Revenue"))
  @@ ("index_column" :> PyStr("Region")) @@ ("columns_column" :> PyStr("Region"))
  @@ ("values_column" :> PyStr("Revenue")) @@ ("agg_func" :> PyStr("sum"))
  @@ ("chart_type" :> PyStr("bar")) @@ ("x_column" :> PyStr("Region"))
  @@ ("y_column" :> PyStr("Revenue"))
  @@ ("columns_to_delete" :> PyList(<<PyStr("Region")>>))
  @@ ("old_column_name" :> PyStr("Region")) @@ ("subset_columns" :> PyNone)
  @@ ("action" :> PyStr("remove")) @@ ("fill_value" :> PyInt(0))
  @@ ("operation" :> PyStr("trim")) @@ ("left_on_column" :> PyStr("Region"))
  @@ ("right_file_path" :> PyStr("/app/uploads/other.xlsx"))
  @@ ("right_on_column" :> PyStr("Region"))
  @@ ("columns_to_merge" :> PyList(<<PyStr("Revenue")>>))
  @@ ("right_sheet_name" :> PyNone) @@ ("group_by_column" :> PyStr("Region"))
  @@ ("agg_column" :> PyStr("Revenue")) @@ ("agg_functions" :> PyList(<<PyStr("sum")>>))
  @@ ("source_column" :> PyStr("Revenue")) @@ ("true_value" :> PyStr("High"))
  @@ ("false_value" :> PyStr("Low")) @@ ("new_sheet_name" :> PyStr("Summary"))
  @@ ("sheet_to_delete" :> PyStr("Sheet1")) @@ ("source_sheet" :> PyStr("Sheet1"))
  @@ ("color" :> PyStr("red"))

Restrict(f, keys) == [k \in DOMAIN f \cap keys |-> f[k]]

\* the schema parameters a call declares
DeclaredChoices ==
  { SampleParameters,
    ("output_filename" :> PyStr("../evil.xlsx")) @@ SampleParameters,
    ("output_filename" :> PyStr("/etc/passwd")) @@ SampleParameters,
    ("action" :> PyStr("find")) @@ Restrict(SampleParameters, DOMAIN SampleParameters \ {"output_filename"}),
    \* values outside the enumerations of the schemas
    ("aggregate_function" :> PyStr("median")) @@ ("operator" :> PyStr("**"))
      @@ ("operation" :> PyStr("reverse")) @@ SampleParameters,
    NoArgs }

\* the keys of the execution context a call declares, with values of its own
OverrideChoices ==
  { NoArgs,
    "file_output_dir" :> PyStr("/etc"),
    "chart_output_dir" :> PyStr("/etc"),
    "file_path" :> PyStr("/etc/passwd"),
    ("file_output_dir" :> PyStr("/etc")) @@ ("chart_output_dir" :> PyStr("/etc"))
      @@ ("file_path" :> PyStr("/etc/passwd")) }

\* keys no tool accepts
ExtraKeys(n) == [k \in {"extra" \o ToString(j) : j \in 1..n} |-> PyStr("x")]

\* calls that declare exactly the `required` list of a tool's schema
RequiredChoices ==
  {Restrict(SampleParameters, TOOLS[k].schema.required) : k \in DOMAIN TOOLS}
  \cup {"action" :> PyStr("find")}

DispatchParameters ==
  {PyDict(o @@ d @@ ExtraKeys(n)) :
     o \in OverrideChoices, d \in DeclaredChoices, n \in 0..MaxExtraKeys}
  \cup {PyDict(d) : d \in RequiredChoices}
  \cup {PyNone, PyList(<<>>)}

DispatchToolNames ==
  {PyStr(TOOLS[k].schema.name) : k \in DOMAIN TOOLS}
  \cup {PyStr("make_coffee"), PyStr(""), PyNone, PyList(<<PyStr("read_rows")>>)}

DispatchEnvs == LoopEnvs \cup {Env("ok", Yearly)}

DispatchInit ==
  /\ AgentInit(<<>>, DispatchEnvs)
  /\ call \in [tool_name : DispatchToolNames, parameters : DispatchParameters,
               context : {ToolContext(WebTask)}, env : DispatchEnvs]
  /\ ret = <<>>

\* one call of tools.execute_tool
ExecuteTool ==
  /\ ret = <<>>
  /\ ret' = <<execute_tool(call.tool_name, call.parameters, call.context, call.env)>>
  /\ LET after == arguments_after(call.tool_name, call.parameters, call.context)
     IN call' = [call EXCEPT !.context = after.context, !.parameters = after.parameters]
  /\ UNCHANGED agent_vars

DispatchNext == ExecuteTool

DispatchSpec == DispatchInit /\ [][DispatchNext]_vars

(***************************************************************************)
(* Properties of the agent loop                                            *)
(***************************************************************************)
UnexpectedError == PyStr("I encountered an unexpected error.")
StuckInLoop == PyStr("I seem to be stuck in a loop.")
NotSure == PyStr("I am not sure how to proceed.")

Returned(t) == pc[t] = "DONE"

\* the assistant turns of a transcript
AssistantTurns(h) == SelectSeq(h, LAMBDA turn : turn.role = "assistant")

IsErrorObservation(o) == o.t = "dict" /\ DOMAIN o.m = {"error"}

\* C1: run_agent_task never lets an exception out: whatever the LLM and the
\* tools did, no task is ever in the state of having raised, a task is at a
\* point of the loop until it returns, and a task that has returned holds
\* exactly one result record, with the keys answer, steps and observations,
\* whose steps and observations are the accumulated ones.
C1_AlwaysReturnsRecord ==
  \A t \in Tasks :
    /\ pc[t] # "RAISED"
    /\ ~Returned(t) =>
         /\ pc[t] \in {"AWAITING_LLM", "PARSING", "DISPATCHING", "APPENDING"}
         /\ result[t] = <<>>
    /\ Returned(t) =>
         /\ Len(result[t]) = 1
         /\ DOMAIN result[t][1] = {"answer", "steps", "observations"}
         /\ result[t][1].steps = steps[t]
         /\ result[t][1].observations = observations[t]

\* C1 witness: a task returned the degraded answer after an LLM call that
\* raised (one more call than assistant turns), having seen a tool error
\* observation and a tool success before.
C1_Witness ==
  \E t \in Tasks :
    /\ Returned(t)
    /\ result[t][1].answer = UnexpectedError
    /\ llm_calls[t] = Len(AssistantTurns(conversation_history[t])) + 1
    /\ \E k \in DOMAIN observations[t] : IsErrorObservation(observations[t][k])
    /\ \E k \in DOMAIN observations[t] : ~IsErrorObservation(observations[t][k])

\* C2: in one task the LLM is called at most 5 times and a tool is
\* dispatched at most 5 times.
C2_AtMostFiveCalls ==
  \A t \in Tasks : llm_calls[t] <= 5 /\ dispatches[t] <= 5

\* C2 witness: a task whose LLM never gave a final answer has returned after
\* 5 LLM calls and 5 dispatches.
C2_Witness ==
  \E t \in Tasks :
    /\ Returned(t)
    /\ result[t][1].answer = StuckInLoop
    /\ llm_calls[t] = 5
    /\ dispatches[t] = 5

(***************************************************************************)
(* Properties of the dispatcher                                            *)
(***************************************************************************)
Executed == ret # <<>>

ContextKeys == {"file_path", "file_output_dir", "chart_output_dir"}

\* the call names a registered tool and its parameters are a mapping, so
\* execute_tool reaches the implementation
ReachesImplementation(c) ==
  /\ IsStr(c.tool_name)
  /\ c.tool_name.s \in DOMAIN TOOL_IMPLEMENTATIONS
  /\ IsDict(c.parameters)

\* C3: the file_path, file_output_dir and chart_output_dir an implementation
\* receives are those of the execution context, whatever the declared
\* parameters hold.
C3_ContextReachesImplementation ==
  Executed =>
    \A k \in DOMAIN ret[1].calls :
      \A key \in ContextKeys \cap DOMAIN ret[1].calls[k].kwargs :
        ret[1].calls[k].kwargs[key] = call.context[key]

\* C3, the write itself: every path an implementation writes lies under one
\* of the output directories of the execution context.
C3_WritesStayInOutputDirs ==
  Executed =>
    \A path \in ret[1].written :
      \E key \in {"file_output_dir", "chart_output_dir"} :
        SubSeq(path, 1, Len(call.context[key].s) + 1) = call.context[key].s \o "/"

\* the execute_tool call that the dispatch of task t's current step makes
CurrentCall(t) ==
  execute_tool(get(current_step[t].m["tool_call"], "tool_name", PyNone),
               get(current_step[t].m["tool_call"], "parameters", PyDict(NoArgs)),
               tool_context[t], disk[t])

\* C4 as claimed: execute_tool never raises; whatever tool call the loop is
\* about to dispatch, the call returns an observation.
C4_ExecuteToolNeverRaises ==
  \A t \in Tasks : pc[t] = "DISPATCHING" => ~CurrentCall(t).raised

FailedObservation(t) ==
  PyDict("error" :>
    PyStr("Tool '" \o PyFormat(get(current_step[t].m["tool_call"], "tool_name", PyNone))
            \o "' failed with error: " \o CurrentCall(t).exc.msg))

\* C4 amended: an exception that execute_tool lets out is caught by the try
\* around the call in run_agent_task: the dispatch step neither ends the task
\* nor raises, and its observation is
\* {error: "Tool '<name>' failed with error: <message>"}.
C4_LoopCatchesToolException ==
  [][\A t \in Tasks :
       (pc[t] = "DISPATCHING" /\ pc'[t] # "DISPATCHING" /\ CurrentCall(t).raised) =>
         /\ pc'[t] = "APPENDING"
         /\ observation_dict'[t] = FailedObservation(t)]_vars

\* C4 witness: a dispatch whose execute_tool call raised inside the
\* implementation has left the failure observation.
C4_Witness ==
  \E t \in Tasks :
    /\ pc[t] = "APPENDING"
    /\ CurrentCall(t).raised
    /\ CurrentCall(t).calls # <<>>
    /\ observation_dict[t] = FailedObservation(t)

\* C5: for every tool name (a string, or None for a missing tool_name) that
\* is not registered, execute_tool raises nothing, calls no implementation,
\* touches no file and returns {error: "Tool '<name>' does not exist."}.
C5_UnknownToolObservation ==
  (Executed /\ Hashable(call.tool_name)
     /\ ~(IsStr(call.tool_name)
          /\ \E k \in DOMAIN TOOLS : TOOLS[k].schema.name = call.tool_name.s)) =>
    /\ ~ret[1].raised
    /\ ret[1].calls = <<>>
    /\ ~ret[1].opened /\ ret[1].written = {}
    /\ ret[1].value =
         PyDict("error" :> PyStr("Tool '" \o (IF IsStr(call.tool_name)
                                               THEN call.tool_name.s ELSE "None")
                                   \o "' does not exist."))

\* C5 witness: calls with an unregistered string and with None were executed.
C5_Witness ==
  /\ Executed
  /\ call.tool_name = PyStr("make_coffee")
  /\ IsDict(call.parameters) /\ DOMAIN call.parameters.m # {}
  /\ ~ret[1].raised

\* C6: for every key that both the declared parameters and the context hold
\* and the implementation accepts, the implementation receives the declared
\* value.
C6_DeclaredValueWins ==
  (Executed /\ ReachesImplementation(call)) =>
    /\ Len(ret[1].calls) = 1
    /\ \A key \in DOMAIN call.parameters.m \cap DOMAIN call.context
                   \cap accepted_params(ret[1].calls[1].def) :
         ret[1].calls[1].kwargs[key] = call.parameters.m[key]

\* C6 witness: a write tool was called with file_output_dir declared with a
\* value other than the context's.
C6_Witness ==
  /\ Executed
  /\ ReachesImplementation(call)
  /\ "file_output_dir" \in DOMAIN call.parameters.m
  /\ call.parameters.m["file_output_dir"] # call.context["file_output_dir"]
  /\ ret[1].calls # <<>>
  /\ "file_output_dir" \in DOMAIN ret[1].calls[1].kwargs

\* the declared parameters without the keys that neither the schema
\* parameters nor the context know
WithoutExtraKeys(parameters) ==
  PyDict(Restrict(parameters.m, DOMAIN SampleParameters \cup ContextKeys))

\* C7: the keys passed to the implementation are exactly those of the
\* context and the declared parameters that are formal parameters of the
\* implementation; the other keys are dropped without any effect: the call
\* does what it does without them.
C7_OnlyAcceptedKeysPassed ==
  (Executed /\ ReachesImplementation(call)) =>
    /\ Len(ret[1].calls) = 1
    /\ DOMAIN ret[1].calls[1].kwargs =
         (DOMAIN call.context \cup DOMAIN call.parameters.m)
           \cap Range(Signature(TOOL_IMPLEMENTATIONS[call.tool_name.s]).formals)
    /\ ret[1] = execute_tool(call.tool_name, WithoutExtraKeys(call.parameters),
                             call.context, call.env)
    /\ ret[1].raised => ret[1].exc.msg #
         TOOL_IMPLEMENTATIONS[call.tool_name.s] \o "() got an unexpected keyword argument"

\* C7 witness: a call that declared MaxExtraKeys keys no tool accepts, beside
\* parameters of other tools, returned a success record.
C7_Witness ==
  /\ Executed
  /\ ReachesImplementation(call)
  /\ Cardinality(DOMAIN call.parameters.m \ (DOMAIN SampleParameters \cup ContextKeys))
       = MaxExtraKeys
  /\ DOMAIN call.parameters.m \ accepted_params(ret[1].calls[1].def) # {}
  /\ ~ret[1].raised
  /\ "success" \in DOMAIN ret[1].value.m

(***************************************************************************)
(* Properties of the turns of the loop                                     *)
(***************************************************************************)
\* the first LLM turn of task t is a JSON object with a final_answer and
\* without a tool_call
FirstTurnFinal(t) ==
  LET h == conversation_history[t]
  IN /\ Len(h) >= 3
     /\ h[3].role = "assistant"
     /\ h[3].content.t = "json_str"
     /\ IsDict(h[3].content.json)
     /\ "final_answer" \in DOMAIN h[3].content.json.m
     /\ "tool_call" \notin DOMAIN h[3].content.json.m

\* C8: when the first LLM turn carries a final_answer and no tool_call, the
\* task makes exactly one LLM call and dispatches no tool, and it returns
\* that final answer with empty observations and one step that records a
\* thought and no tool invocation.
C8_FirstTurnFinalAnswer ==
  \A t \in Tasks :
    FirstTurnFinal(t) =>
      /\ pc[t] \in {"PARSING", "DONE"}
      /\ llm_calls[t] = 1
      /\ dispatches[t] = 0
      /\ invocations[t] = <<>>
      /\ Len(conversation_history[t]) = 3
      /\ Returned(t) =>
           /\ result[t][1].answer = conversation_history[t][3].content.json.m["final_answer"]
           /\ result[t][1].observations = <<>>
           /\ Len(result[t][1].steps) = 1
           /\ DOMAIN result[t][1].steps[1].m = {"thought"}

\* C8 witness: the task returned the final answer of its first turn.
C8_Witness ==
  \E t \in Tasks :
    /\ FirstTurnFinal(t)
    /\ Returned(t)
    /\ IsStr(result[t][1].answer)
    /\ result[t][1].answer \notin {UnexpectedError, StuckInLoop, NotSure}
    /\ llm_calls[t] = 1

\* the turn is an assistant turn whose text is not a JSON document
InvalidJsonTurn(turn) == turn.role = "assistant" /\ turn.content.t # "json_str"

\* C9: an LLM turn whose text is not valid JSON is the last turn of the
\* transcript, raw; no tool is dispatched for it and no LLM call follows it
\* (the calls made are those of the iterations so far, the dispatches those
\* of the iterations before), and the task returns
\* "I encountered an unexpected error." with the steps recorded before.
C9_InvalidJsonEndsTask ==
  \A t \in Tasks :
    \A k \in DOMAIN conversation_history[t] :
      InvalidJsonTurn(conversation_history[t][k]) =>
        /\ k = Len(conversation_history[t])
        /\ pc[t] \in {"PARSING", "DONE"}
        /\ llm_calls[t] = i[t] + 1
        /\ dispatches[t] = i[t]
        /\ Len(steps[t]) = i[t]
        /\ Returned(t) =>
             /\ result[t][1].answer = UnexpectedError
             /\ Len(result[t][1].steps) = i[t]
             /\ Len(result[t][1].observations) = i[t]

\* C9 witness: a task returned the degraded answer on invalid JSON in its
\* third turn, after two dispatches.
C9_Witness ==
  \E t \in Tasks :
    /\ Returned(t)
    /\ InvalidJsonTurn(conversation_history[t][Len(conversation_history[t])])
    /\ i[t] = 2
    /\ dispatches[t] = 2
    /\ llm_calls[t] = 3
    /\ result[t][1].answer = UnexpectedError

\* the tool_call of the k-th assistant turn, and the text of the k-th
\* observation turn
DecidedToolCall(t, k) == conversation_history[t][1 + 2 * k].content.json.m["tool_call"]
ObservationTurn(t, k) == conversation_history[t][2 + 2 * k]

\* C10: once all 5 iterations have dispatched a tool and recorded its
\* observation, the task makes no further LLM call and returns
\* "I seem to be stuck in a loop." with 5 steps and 5 observations, the k-th
\* of each being the tool call of the k-th LLM turn and the observation the
\* k-th dispatch produced.
C10_StuckInLoopKeepsTrail ==
  \A t \in Tasks :
    i[t] = max_steps =>
      /\ pc[t] \in {"AWAITING_LLM", "DONE"}
      /\ llm_calls[t] = max_steps
      /\ dispatches[t] = max_steps
      /\ Returned(t) =>
           /\ result[t][1].answer = StuckInLoop
           /\ Len(result[t][1].steps) = max_steps
           /\ Len(result[t][1].observations) = max_steps
           /\ \A k \in 1..max_steps :
                /\ ObservationTurn(t, k) =
                     Turn("user", ObservationText(json_dumps(result[t][1].observations[k]).value))
                /\ result[t][1].steps[k].m["tool_call"] = DecidedToolCall(t, k)
                /\ result[t][1].steps[k].m["observation"] =
                     json_dumps(result[t][1].observations[k]).value

\* C10 witness: a task was returned as stuck after five dispatches whose
\* first observation differs from its last.
C10_Witness ==
  \E t \in Tasks :
    /\ Returned(t)
    /\ i[t] = max_steps
    /\ result[t][1].answer = StuckInLoop
    /\ Len(result[t][1].observations) = max_steps
    /\ result[t][1].observations[1] # result[t][1].observations[max_steps]
    /\ IsErrorObservation(result[t][1].observations[1])
    /\ ~IsErrorObservation(result[t][1].observations[max_steps])

(***************************************************************************)
(* Properties of the ways a task ends                                      *)
(***************************************************************************)
\* the turn is an assistant turn whose text parses to a JSON object
DecisionTurn(turn) ==
  /\ turn.role = "assistant"
  /\ turn.content.t = "json_str"
  /\ IsDict(turn.content.json)

\* a decision with no final_answer and no tool_call (absent, or null)
UndecidedTurn(turn) ==
  /\ DecisionTurn(turn)
  /\ "final_answer" \notin DOMAIN turn.content.json.m
  /\ get(turn.content.json, "tool_call", PyNone) = PyNone

\* task t is in the iteration of its last LLM turn, which has dispatched
\* nothing and has not been followed by another LLM call
EndsInThisIteration(t, k) ==
  /\ k = Len(conversation_history[t])
  /\ k = 3 + 2 * i[t]
  /\ pc[t] \in {"PARSING", "DONE"}
  /\ llm_calls[t] = i[t] + 1
  /\ dispatches[t] = i[t]
  /\ Len(observations[t]) = i[t]

\* C11: a decision with neither final_answer nor tool_call ends the task in
\* its iteration: no tool is dispatched for it, no LLM call follows, and the
\* task returns "I am not sure how to proceed." (not the answer of the
\* exhausted step budget) with the steps and observations of the earlier
\* iterations.
C11_UndecidedEndsTask ==
  \A t \in Tasks :
    \A k \in DOMAIN conversation_history[t] :
      UndecidedTurn(conversation_history[t][k]) =>
        /\ EndsInThisIteration(t, k)
        /\ Len(steps[t]) = i[t]
        /\ Returned(t) =>
             /\ result[t][1].answer = NotSure
             /\ result[t][1].answer # StuckInLoop
             /\ result[t][1].steps = steps[t]
             /\ result[t][1].observations = observations[t]

\* C11 witness: after two dispatches a decision that holds a thought alone
\* ended the task.
C11_Witness ==
  \E t \in Tasks :
    /\ Returned(t)
    /\ UndecidedTurn(conversation_history[t][Len(conversation_history[t])])
    /\ "tool_call" \notin DOMAIN
         conversation_history[t][Len(conversation_history[t])].content.json.m
    /\ i[t] = 2
    /\ Len(result[t][1].steps) = 2
    /\ result[t][1].answer = NotSure

\* a decision with a final_answer
FinalTurn(turn) ==
  DecisionTurn(turn) /\ "final_answer" \in DOMAIN turn.content.json.m

\* C12: a decision with a final_answer, with or without a tool_call beside
\* it, ends the task in its iteration: no tool is dispatched in that turn or
\* later, and the task returns that answer with the observations of the
\* earlier iterations and their steps followed by the step of this turn.
C12_FinalAnswerEndsTask ==
  \A t \in Tasks :
    \A k \in DOMAIN conversation_history[t] :
      FinalTurn(conversation_history[t][k]) =>
        /\ EndsInThisIteration(t, k)
        /\ Returned(t) =>
             /\ result[t][1].answer = conversation_history[t][k].content.json.m["final_answer"]
             /\ result[t][1].observations = observations[t]
             /\ Len(result[t][1].steps) = i[t] + 1
             /\ \A j \in 1..i[t] : "observation" \in DOMAIN result[t][1].steps[j].m
             /\ "tool_call" \notin DOMAIN result[t][1].steps[i[t] + 1].m
             /\ Len(invocations[t]) <= i[t]

\* C12 witness: after one dispatch a decision with both a final_answer and
\* a tool_call ended the task with the final answer.
C12_Witness ==
  \E t \in Tasks :
    LET last == conversation_history[t][Len(conversation_history[t])]
    IN /\ Returned(t)
       /\ FinalTurn(last)
       /\ "tool_call" \in DOMAIN last.content.json.m
       /\ i[t] = 1
       /\ dispatches[t] = 1
       /\ result[t][1].answer = last.content.json.m["final_answer"]

\* the transcript turn that feeds observation o back to the LLM
FedBack(o) == Turn("user", ObservationText(json_dumps(o).value))

Last(q) == q[Len(q)]

\* C13: a dispatch that ends in an error Observation does not end the task.
\* The dispatch step leaves the error as the observation of the iteration;
\* the step after it appends the error to observations, to steps and to the
\* transcript and goes on to the next iteration; and when that iteration is
\* one of the 5, the step that follows is an LLM call made with a
\* transcript whose last turn is that error.
C13_ErrorObservationFedBack ==
  [][\A t \in Tasks :
       /\ ( /\ pc[t] = "DISPATCHING" /\ pc'[t] # "DISPATCHING"
            /\ (CurrentCall(t).raised \/ IsErrorObservation(CurrentCall(t).value)) ) =>
            /\ pc'[t] = "APPENDING"
            /\ result'[t] = <<>>
            /\ IsErrorObservation(observation_dict'[t])
       /\ ( /\ pc[t] = "APPENDING" /\ pc'[t] # "APPENDING"
            /\ IsErrorObservation(observation_dict[t]) ) =>
            /\ pc'[t] = "AWAITING_LLM"
            /\ result'[t] = <<>>
            /\ i'[t] = i[t] + 1
            /\ observations'[t] = Append(observations[t], observation_dict[t])
            /\ Len(steps'[t]) = Len(steps[t]) + 1
            /\ Last(steps'[t]).m["observation"] = json_dumps(observation_dict[t]).value
            /\ Last(steps'[t]).m["tool_call"] = current_step[t].m["tool_call"]
            /\ conversation_history'[t] =
                 Append(conversation_history[t], FedBack(observation_dict[t]))
       /\ ( /\ pc[t] = "AWAITING_LLM" /\ pc'[t] # "AWAITING_LLM"
            /\ i[t] \in 1..(max_steps - 1)
            /\ IsErrorObservation(Last(observations[t])) ) =>
            /\ llm_calls'[t] = llm_calls[t] + 1
            /\ Last(conversation_history[t]) = FedBack(Last(observations[t]))
     ]_vars

\* C13 witness: the LLM was called a third time after an unknown tool name
\* and then an exception of an implementation, both in the transcript.
C13_Witness ==
  \E t \in Tasks :
    /\ pc[t] = "PARSING"
    /\ llm_calls[t] = 3
    /\ Len(observations[t]) = 2
    /\ observations[t][1] =
         PyDict("error" :> PyStr("Tool 'make_coffee' does not exist."))
    /\ IsErrorObservation(observations[t][2])
    /\ invocations[t] # <<>>
    /\ execute_tool(PyStr(invocations[t][1].def),
                    PyDict(invocations[t][1].kwargs), tool_context[t], disk[t]).raised
    /\ conversation_history[t][4] = FedBack(observations[t][1])
    /\ conversation_history[t][6] = FedBack(observations[t][2])

\* C14: an LLM call that raises adds no turn to the transcript, so it is
\* the one call without an assistant turn.  After it the task has returned
\* "I encountered an unexpected error."; no call and no iteration follows
\* (the calls made are those of the iterations so far, the failed one
\* included), and the record holds the steps and observations of the
\* iterations before, each step with its observation.
C14_TransportFailureEndsTask ==
  \A t \in Tasks :
    /\ llm_calls[t] <= Len(AssistantTurns(conversation_history[t])) + 1
    /\ llm_calls[t] = Len(AssistantTurns(conversation_history[t])) + 1 =>
         /\ Returned(t)
         /\ llm_calls[t] = i[t] + 1
         /\ dispatches[t] = i[t]
         /\ Len(conversation_history[t]) = 2 + 2 * i[t]
         /\ result[t] = <<[answer |-> UnexpectedError, steps |-> steps[t],
                           observations |-> observations[t]]>>
         /\ Len(steps[t]) = i[t]
         /\ Len(observations[t]) = i[t]
         /\ \A j \in 1..i[t] :
              /\ steps[t][j].m["observation"] = json_dumps(observations[t][j]).value
              /\ conversation_history[t][2 + 2 * j] = FedBack(observations[t][j])

\* C14 witness: the LLM call of the third iteration raised.
C14_Witness ==
  \E t \in Tasks :
    /\ Returned(t)
    /\ llm_calls[t] = 3
    /\ Len(AssistantTurns(conversation_history[t])) = 2
    /\ Len(result[t][1].steps) = 2
    /\ Len(result[t][1].observations) = 2
    /\ result[t][1].answer = UnexpectedError

(***************************************************************************)
(* Properties of the tools                                                 *)
(***************************************************************************)
\* the implementation call that execute_tool made
TheCall == ret[1].calls[1]

\* the call reached a write tool: one that takes an output directory
WriteToolCalled ==
  /\ Executed
  /\ ReachesImplementation(call)
  /\ Signature(TheCall.def).out_dir # ""

\* the filename is an absolute path or holds a parent-directory segment
UnsafeFilename(filename) == isabs(filename) \/ Contains(filename, "..")

\* the observation the loop records for the call
LoopObservation ==
  try_execute_tool(call.tool_name, call.parameters, call.context, call.env).value

\* C15: for every write tool, a call whose output_filename is absolute or
\* holds a parent-directory segment ends in an error Observation, without
\* the input file having been opened and without any file written; and
\* every output_file or chart_path of a success Observation is the output
\* directory the tool was handed joined with the filename given (it is the
\* context's directory when the parameters declare none).
C15_UnsafeFilenameRejected ==
  WriteToolCalled =>
    LET kwargs == TheCall.kwargs
        out_dir == Signature(TheCall.def).out_dir
        given == "output_filename" \in DOMAIN kwargs /\ IsStr(kwargs["output_filename"])
    IN
    /\ (given /\ UnsafeFilename(kwargs["output_filename"].s)) =>
         /\ ret[1].raised
         /\ ~ret[1].opened
         /\ ret[1].written = {}
         /\ IsErrorObservation(LoopObservation)
         /\ MissingArguments(TheCall.def, kwargs) = {} =>
              ret[1].exc.type = "ValueError"
    /\ (given /\ ~ret[1].raised) =>
         /\ \A key \in {"output_file", "chart_path"} \cap DOMAIN ret[1].value.m :
              ret[1].value.m[key] =
                PyStr(kwargs[out_dir].s \o "/" \o kwargs["output_filename"].s)
         /\ ret[1].written \subseteq
              {kwargs[out_dir].s \o "/" \o kwargs["output_filename"].s}
         /\ out_dir \notin DOMAIN call.parameters.m =>
              kwargs[out_dir] = call.context[out_dir]

\* C15 witness: filter_rows was called with "../evil.xlsx" on a file that
\* cannot be read, and the error is the one of the path check.
C15_Witness ==
  /\ WriteToolCalled
  /\ TheCall.def = "filter_rows"
  /\ "output_filename" \in DOMAIN TheCall.kwargs
  /\ TheCall.kwargs["output_filename"] = PyStr("../evil.xlsx")
  /\ call.env.io = "error"
  /\ ret[1].raised
  /\ ret[1].exc.type = "ValueError"
  /\ ~ret[1].opened

(***************************************************************************)
(* The scenario of the average of column Revenue                           *)
(***************************************************************************)
\* the tool_call of an assistant turn that is a decision, None otherwise
ToolCallOf(turn) ==
  IF DecisionTurn(turn) THEN get(turn.content.json, "tool_call", PyNone) ELSE PyNone

\* task t was asked for the average of Revenue on the Sales file; its LLM
\* called get_data_summary, then column_aggregate with mean on Revenue, then
\* gave a final answer
AverageScenario(t) ==
  LET h == conversation_history[t]
  IN /\ h[2].content = PyStr("User Request: \"What is the average of column Revenue?\"\n"
                               \o "File to be used: \"/app/uploads/sales.xlsx\"")
     /\ disk[t] = Env("ok", Sales)
     /\ Len(h) = 7
     /\ ToolCallOf(h[3]) = ToolCall(PyStr("get_data_summary"), PyDict(NoArgs))["tool_call"]
     /\ ToolCallOf(h[5]) =
          ToolCall(PyStr("column_aggregate"),
                   PyDict(("column_name" :> PyStr("Revenue"))
                          @@ ("aggregate_function" :> PyStr("mean"))))["tool_call"]
     /\ FinalTurn(h[7])
     /\ "tool_call" \notin DOMAIN h[7].content.json.m
     /\ Returned(t)

\* C16 as claimed: in the scenario steps has length 2 and the second
\* observation is {result: 20.0, processed_rows: 3}.
C16_ScenarioTwoSteps ==
  \A t \in Tasks :
    AverageScenario(t) =>
      /\ Len(result[t][1].steps) = 2
      /\ result[t][1].observations[2] =
           PyDict(("result" :> PyFloat(20, 1)) @@ ("processed_rows" :> PyInt(3)))

\* C16 amended: in the scenario the second of the two observations is
\* {result: 20.0, processed_rows: 3}, the answer is the LLM's final answer,
\* and steps has length 3: the two tool steps, each with its tool call and
\* observation, and the step of the final-answer turn, which holds the
\* thought alone.
C16_ScenarioThreeSteps ==
  \A t \in Tasks :
    AverageScenario(t) =>
      LET r == result[t][1]
      IN /\ Len(r.observations) = 2
         /\ r.observations[1] =
              PyDict(("sheet_name" :> PyStr("Sheet1")) @@ ("total_rows" :> PyInt(4))
                     @@ ("header_columns" :> PyList(<<PyStr("Region"), PyStr("Revenue")>>)))
         /\ r.observations[2] =
              PyDict(("result" :> PyFloat(20, 1)) @@ ("processed_rows" :> PyInt(3)))
         /\ r.answer = conversation_history[t][7].content.json.m["final_answer"]
         /\ Len(r.steps) = 3
         /\ \A j \in 1..2 :
              /\ r.steps[j].m["tool_call"] = ToolCallOf(conversation_history[t][1 + 2 * j])
              /\ r.steps[j].m["observation"] = json_dumps(r.observations[j]).value
         /\ DOMAIN r.steps[3].m = {"thought"}

\* C16 witness: the scenario has run and returned "The average is 20.0."
C16_Witness ==
  \E t \in Tasks :
    /\ AverageScenario(t)
    /\ result[t][1].answer = PyStr("The average is 20.0.")
    /\ llm_calls[t] = 3
    /\ dispatches[t] = 2

(***************************************************************************)
(* Two web requests at once: each request thread runs run_agent_task       *)
(***************************************************************************)
\* a second request, for another file
OtherTask == TaskInput("Sort the costs.", "/app/uploads/costs.xlsx",
                       "/app/static/charts", "/app/static/outputs")

ConcurrentInputs == ("t1" :> WebTask) @@ ("t2" :> OtherTask)

ConcurrentEnvs == {Env("ok", Sales), Env("error", Sales)}

\* what the LLM does in the two-task runs
ConcurrentOutcomes ==
  { Return(JsonText(PyDict(Thought @@
      ToolCall(PyStr("column_aggregate"),
               PyDict(("column_name" :> PyStr("Revenue"))
                      @@ ("aggregate_function" :> PyStr("mean"))))))),
    Return(JsonText(PyDict(Thought @@
      ToolCall(PyStr("sort_data"),
               PyDict(("output_filename" :> PyStr("sorted.xlsx"))
                      @@ ("sort_by_column" :> PyStr("Revenue"))))))),
    Return(JsonText(PyDict(Thought @@ ("final_answer" :> PyStr("Done."))))),
    Raise("APIConnectionError", "Connection error.") }

\* the first request's file can be read, the second's cannot
ConcurrentInit ==
  /\ AgentInit(ConcurrentInputs, ConcurrentEnvs)
  /\ disk["t1"].io = "ok"
  /\ disk["t2"].io = "error"
  /\ call = NoCall
  /\ ret = <<>>

ConcurrentRequestLLM ==
  \E t \in Tasks : CallLLM(t, ConcurrentOutcomes) /\ UNCHANGED <<call, ret>>

\* the threads interleave at every step of the loop
ConcurrentNext ==
  \/ ConcurrentRequestLLM
  \/ ParseResponse
  \/ DispatchTool
  \/ RecordObservation
  \/ LoopExhausted

ConcurrentSpec == ConcurrentInit /\ [][ConcurrentNext]_vars

\* the record a return statement of run_agent_task builds
ResultRecord(answer, st) ==
  [history |-> st.history, steps |-> st.steps, observations |-> st.observations,
   result |-> <<[answer |-> answer, steps |-> st.steps,
                 observations |-> st.observations]>>]

RECURSIVE RunAlone(_, _, _, _)
\* run_agent_task run by itself, from iteration k on: `in` are its
\* arguments, env is what its tools meet, responses are the outcomes of its
\* _call_llm calls in order, st holds its transcript, steps and observations
RunAlone(in, env, responses, st) ==
  IF st.k = max_steps THEN ResultRecord(StuckInLoop, st)
  ELSE IF responses = <<>> THEN
    [history |-> st.history, steps |-> st.steps, observations |-> st.observations,
     result |-> <<>>]
  ELSE IF Head(responses).raised THEN ResultRecord(UnexpectedError, st)
  ELSE
    LET llm_response_str == Head(responses).value
        heard == [st EXCEPT !.history = Append(@, Turn("assistant", llm_response_str))]
        parsed == json_loads(llm_response_str)
        llm_response == parsed.value
        thought == get(llm_response, "thought", PyStr("(No thought provided)"))
        tool_call == get(llm_response, "tool_call", PyNone)
        tool_name == get(tool_call, "tool_name", PyNone)
        parameters == get(tool_call, "parameters", PyDict(NoArgs))
        observation_dict_ == try_execute_tool(tool_name, parameters, ToolContext(in), env).value
        dumped == json_dumps(observation_dict_)
        step == PyDict(("thought" :> thought) @@ ("tool_call" :> tool_call)
                       @@ ("observation" :> dumped.value))
    IN
    IF parsed.raised \/ ~IsDict(llm_response) THEN ResultRecord(UnexpectedError, heard)
    ELSE IF "final_answer" \in DOMAIN llm_response.m
      THEN ResultRecord(llm_response.m["final_answer"],
                        [heard EXCEPT !.steps = Append(@, PyDict("thought" :> thought))])
    ELSE IF ~Truthy(tool_call) THEN ResultRecord(NotSure, heard)
    ELSE IF ~IsDict(tool_call) THEN ResultRecord(UnexpectedError, heard)
    ELSE IF dumped.raised THEN ResultRecord(UnexpectedError, heard)
    ELSE RunAlone(in, env, Tail(responses),
                  [k |-> st.k + 1,
                   history |-> Append(heard.history,
                                      Turn("user", ObservationText(dumped.value))),
                   steps |-> Append(st.steps, step),
                   observations |-> Append(st.observations, observation_dict_)])

\* the outcomes of the _call_llm calls task t has made: the texts of its
\* assistant turns, then the exception of the call that left no turn
Responses(t) ==
  LET turns == AssistantTurns(conversation_history[t])
      texts == [k \in DOMAIN turns |-> Return(turns[k].content)]
  IN IF llm_calls[t] > Len(turns)
       THEN Append(texts, Raise("APIConnectionError", "Connection error."))
       ELSE texts

\* task t run alone on the responses it got
Alone(t) ==
  RunAlone(ConcurrentInputs[t], disk[t], Responses(t),
           [k |-> 0, history |-> InitialHistory(ConcurrentInputs[t]),
            steps |-> <<>>, observations |-> <<>>])

SchemaOf(c) ==
  TOOLS[CHOOSE k \in DOMAIN TOOLS : TOOLS[k].schema.name = c.tool_name.s].schema

\* the call declares exactly the parameters its schema requires
RequiredOnly(c) ==
  /\ ReachesImplementation(c)
  /\ DOMAIN c.parameters.m = SchemaOf(c).required

\* C18: a call that declares exactly the required parameters of its tool's
\* schema, with the context injected, supplies every parameter of the
\* implementation that has no default, so the call does not fail for a
\* missing argument; and handle_duplicates with action "find" and no
\* output_filename, on a file that can be read, returns a success record.
C18_RequiredParametersSuffice ==
  (Executed /\ RequiredOnly(call)) =>
    /\ NoDefault(TheCall.def) \subseteq DOMAIN TheCall.kwargs
    /\ ~(ret[1].raised /\ ret[1].exc.type = "TypeError")
    /\ ( /\ call.tool_name = PyStr("handle_duplicates")
         /\ call.parameters = PyDict("action" :> PyStr("find"))
         /\ call.env.io = "ok" ) =>
         /\ ~ret[1].raised
         /\ ret[1].value.m["success"] = PyBool(TRUE)
         /\ ~IsErrorObservation(LoopObservation)

\* the `enum` of the operator or aggregate-function property in the schemas
\* of tools.py (lines 91, 121, 188, 413, 540)
SchemaEnum(tool) ==
  CASE tool = "column_aggregate" ->
         [arg |-> "aggregate_function", enum |-> {"sum", "mean", "min", "max"}]
    [] tool = "add_column_from_formula" ->
         [arg |-> "operator", enum |-> {"+", "-", "*", "/"}]
    [] tool \in {"filter_rows", "conditional_value_column"} ->
         [arg |-> "operator", enum |-> {"==", "!=", ">", "<", ">=", "<=", "contains"}]
    [] tool = "string_manipulation_in_column" ->
         [arg |-> "operation", enum |-> {"uppercase", "lowercase", "trim"}]
    [] OTHER -> [arg |-> "", enum |-> {}]

\* the call reached one of the five tools with an operator or aggregate
\* function that its schema does not enumerate
OutsideEnum(c) ==
  /\ ReachesImplementation(c)
  /\ SchemaEnum(c.tool_name.s).arg \in DOMAIN c.parameters.m
  /\ c.parameters.m[SchemaEnum(c.tool_name.s).arg]
       \notin {PyStr(v) : v \in SchemaEnum(c.tool_name.s).enum}

\* C19: a call of column_aggregate, add_column_from_formula, filter_rows,
\* conditional_value_column or string_manipulation_in_column whose operator
\* or aggregate function is not in the schema's enumeration ends in an
\* error Observation and writes no file.
C19_InvalidOperatorRejected ==
  (Executed /\ OutsideEnum(call)) =>
    /\ IsErrorObservation(LoopObservation)
    /\ ret[1].written = {}

(***************************************************************************)
(* Properties of the audit trail                                           *)
(***************************************************************************)
\* C20: when run_agent_task returns, steps holds one StepRecord for each
\* iteration that ran, the one that ended the task included: its length is
\* the number of LLM turns taken, and the records are in iteration order,
\* the k-th holding the tool call of the k-th turn if that turn made one.
C20_OneStepPerIteration ==
  \A t \in Tasks :
    Returned(t) =>
      /\ Len(result[t][1].steps) = llm_calls[t]
      /\ \A k \in 1..Len(result[t][1].steps) :
           "tool_call" \in DOMAIN result[t][1].steps[k].m =>
             result[t][1].steps[k].m["tool_call"] = DecidedToolCall(t, k)

\* C21: the transcript of a task is append-only. In every step the new
\* transcript is the old one with zero or more turns added at the end (no turn
\* already appended is changed or removed), and its first two turns are the
\* system prompt and the user request in every state of the task.
C21_TranscriptAppendOnly ==
  /\ [](\A t \in Tasks :
          SubSeq(conversation_history[t], 1, 2) = InitialHistory(WebTask))
  /\ [][\A t \in Tasks :
          /\ Len(conversation_history'[t]) >= Len(conversation_history[t])
          /\ SubSeq(conversation_history'[t], 1, Len(conversation_history[t]))
               = conversation_history[t]]_vars

\* a task whose transcript grew by five assistant turns and five observation
\* turns and that has ended
C21_Witness ==
  \E t \in Tasks : /\ Len(conversation_history[t]) = 2 + 2 * max_steps
                    /\ Returned(t)

\* C22: the execution context of a task (file_path, chart_output_dir,
\* file_output_dir) is the one built at the start in every state, no step of
\* the loop and no execute_tool call changes it, also when the declared
\* parameters hold a key of the context, and the dispatch leaves the declared
\* parameters (the dict held by the current step's tool_call) as they were.
C22_ContextNeverMutated ==
  /\ [](\A t \in Tasks : tool_context[t] = ToolContext(WebTask))
  /\ [][\A t \in Tasks :
          /\ tool_context'[t] = tool_context[t]
          /\ pc[t] = "DISPATCHING" => current_step'[t] = current_step[t]]_vars

\* a registered tool was called with file_output_dir among its declared
\* parameters, and the call returned
C22_Witness ==
  \E t \in Tasks :
    /\ pc[t] = "APPENDING"
    /\ Len(invocations[t]) > 0
    /\ "file_output_dir" \in DOMAIN current_step[t].m["tool_call"].m["parameters"].m
    /\ current_step[t].m["tool_call"].m["tool_name"] = PyStr("read_rows")

\* the record json.loads gives for the text json.dumps wrote for v
RoundTrip(v) == json_loads(json_dumps(v).value).value

\* C23: round trip of an observation. For every value a successful tool call
\* returns and the loop can serialize, parsing the serialized text gives a
\* record with the same keys and the same values as the tool produced.
C23_ObservationRoundTrip ==
  (Executed /\ ~ret[1].raised /\ ~IsErrorObservation(ret[1].value)
     /\ ~json_dumps(ret[1].value).raised)
    => RoundTrip(ret[1].value) = ret[1].value

(***************************************************************************)
(* Two requests whose files can both be read and whose LLM asks for the    *)
(* same output file                                                        *)
(***************************************************************************)
SortToSameFile ==
  ToolCall(PyStr("sort_data"),
           PyDict(("output_filename" :> PyStr("sorted.xlsx"))
                  @@ ("sort_by_column" :> PyStr("Revenue"))))

SameOutputOutcomes ==
  { Return(JsonText(PyDict(Thought @@ SortToSameFile))),
    Return(JsonText(PyDict(Thought @@ ("final_answer" :> PyStr("Done."))))) }

SameOutputInit ==
  /\ AgentInit(ConcurrentInputs, {Env("ok", Sales)})
  /\ call = NoCall
  /\ ret = <<>>

SameOutputRequestLLM ==
  \E t \in Tasks : CallLLM(t, SameOutputOutcomes) /\ UNCHANGED <<call, ret>>

SameOutputNext ==
  \/ SameOutputRequestLLM
  \/ ParseResponse
  \/ DispatchTool
  \/ RecordObservation
  \/ LoopExhausted

SameOutputSpec == SameOutputInit /\ [][SameOutputNext]_vars

SortedPath == join("/app/static/outputs", "sorted.xlsx")

SortedObservation ==
  PyDict(("success" :> PyBool(TRUE)) @@ ("output_file" :> PyStr(SortedPath)))

\* C24: the path check gives no mutual exclusion. With two concurrent tasks
\* given the same output directory and the same output_filename, every write
\* call of either task passes the path check whether or not the file exists,
\* reports success with the same output_file path, and leaves at that path
\* the data of its own input file, replacing what an earlier write of the
\* other task put there.
C24_NoMutualExclusion ==
  [][\A t \in Tasks :
       (pc[t] = "DISPATCHING" /\ pc'[t] # pc[t]) =>
         /\ pc'[t] = "APPENDING"
         /\ observation_dict'[t] = SortedObservation
         /\ files'[SortedPath] =
              [def |-> "sort_data", file_path |-> PyStr(ConcurrentInputs[t].file_path)]]_vars

\* both tasks wrote sorted.xlsx once and both hold the success observation
\* with the same path; the file holds the second task's data, the first
\* task's having been replaced
C24_Witness ==
  /\ dispatches["t1"] = 1 /\ dispatches["t2"] = 1
  /\ observations["t1"] = <<SortedObservation>>
  /\ observations["t2"] = <<SortedObservation>>
  /\ files[SortedPath] = [def |-> "sort_data", file_path |-> PyStr(OtherTask.file_path)]

\* the names of the registry, in registration order
ToolNames == [k \in DOMAIN TOOLS |-> TOOLS[k].schema.name]

\* what the registry built at import looks like: names pairwise distinct,
\* each name resolving to the implementation registered with its schema, each
\* implementation being exactly one processor function, and
\* get_tool_schemas listing the schemas in registration order
RegistryConsistent ==
  /\ \A j, k \in DOMAIN TOOLS : ToolNames[j] = ToolNames[k] => j = k
  /\ DOMAIN TOOL_IMPLEMENTATIONS = Range(ToolNames)
  /\ \A k \in DOMAIN TOOLS :
       /\ TOOL_IMPLEMENTATIONS[ToolNames[k]] = TOOLS[k].implementation
       /\ Cardinality({sig \in Signatures : sig.def = TOOLS[k].implementation}) = 1
       /\ Cardinality({j \in DOMAIN get_tool_schemas :
                         get_tool_schemas[j].name = ToolNames[k]}) = 1
  /\ DOMAIN get_tool_schemas = DOMAIN TOOLS
  /\ \A k \in DOMAIN TOOLS : get_tool_schemas[k] = TOOLS[k].schema

\* C25: the tool registry is consistent and fixed. Tool names are pairwise
\* distinct, every registered name resolves to exactly one schema and one
\* implementation, get_tool_schemas gives the schemas in registration order,
\* and in every state of a task the schema list its system prompt was built
\* from is that list and every implementation call made so far went to the
\* implementation registered under the name the LLM asked for.
C25_RegistryConsistentAndFixed ==
  /\ [](/\ RegistryConsistent
        /\ \A t \in Tasks :
             conversation_history[t][1].content.tools_schema_str
               = [k \in DOMAIN TOOLS |-> TOOLS[k].schema])
  /\ [][\A t \in Tasks :
          \/ invocations'[t] = invocations[t]
          \/ /\ pc[t] = "DISPATCHING"
             /\ Len(invocations'[t]) = Len(invocations[t]) + 1
             /\ Last(invocations'[t]).def
                  = TOOL_IMPLEMENTATIONS[current_step[t].m["tool_call"].m["tool_name"].s]]_vars

\* a task that has returned after calling two different registered tools
C25_Witness ==
  \E t \in Tasks :
    /\ Returned(t)
    /\ Len(invocations[t]) = 2 /\ Len(steps[t]) = 3
    /\ invocations[t][1].def = "get_data_summary"
    /\ invocations[t][2].def = "column_aggregate"

\* the "Observation: ..." user turns of a transcript, in order
ObservationTurns(h) ==
  SelectSeq(h, LAMBDA turn : turn.role = "user" /\ turn.content.t = "fstr")

\* the step records that carry an observation, in order
ObservationSteps(q) == SelectSeq(q, LAMBDA step : "observation" \in DOMAIN step.m)

\* C26: the three records of a dispatch are consistent in every reachable
\* state. The number of observation turns in the transcript equals the length
\* of observations and the number of steps that carry an observation, and for
\* every i the i-th such step's observation and the text of the i-th
\* observation turn are the serialized text of observations[i]; a dispatch
\* whose result cannot be serialized updates none of the three.
C26_DispatchRecordsConsistent ==
  \A t \in Tasks :
    LET turns == ObservationTurns(conversation_history[t])
        with_observation == ObservationSteps(steps[t])
    IN /\ Len(turns) = Len(observations[t])
       /\ Len(with_observation) = Len(observations[t])
       /\ \A k \in DOMAIN observations[t] :
            LET text == json_dumps(observations[t][k])
            IN /\ ~text.raised
               /\ with_observation[k].m["observation"] = text.value
               /\ turns[k].content = ObservationText(text.value)

\* a task recorded the observation of its first dispatch in all three places,
\* its second dispatch returned a value that cannot be serialized, and the
\* task has ended
C26_Witness ==
  \E t \in Tasks :
    /\ Returned(t)
    /\ dispatches[t] = 2
    /\ Len(observations[t]) = 1
    /\ json_dumps(observation_dict[t]).raised

\* the texts _call_llm can return
LLMResponseTexts == {r.value : r \in {o \in LLMOutcomes : ~o.raised}}

\* C27: ordering inside a task. Every LLM call is made on a transcript whose
\* last turn has role user, the observation turn of iteration k being in the
\* transcript before the call of iteration k+1; each LLM response is in the
\* transcript as an assistant turn, verbatim, when it is parsed; so after the
\* system turn the roles strictly alternate user, assistant, user, ...
C27_TurnOrdering ==
  \A t \in Tasks :
    LET h == conversation_history[t]
    IN /\ h[1].role = "system"
       /\ \A k \in 2..Len(h) : h[k].role = IF k % 2 = 0 THEN "user" ELSE "assistant"
       /\ \A k \in 2..Len(h) : h[k].role = "assistant" => h[k].content \in LLMResponseTexts
       /\ pc[t] = "AWAITING_LLM" =>
            /\ Last(h).role = "user"
            /\ Len(ObservationTurns(h)) = i[t]
            /\ llm_calls[t] = i[t]
       /\ pc[t] \in {"PARSING", "DISPATCHING", "APPENDING"} =>
            /\ Last(h).role = "assistant"
            /\ Len(AssistantTurns(h)) = i[t] + 1
            /\ llm_calls[t] = i[t] + 1

\* the fourth LLM call of a task is about to be made: three assistant turns
\* and three observation turns follow the system and user turns
C27_Witness ==
  \E t \in Tasks :
    /\ pc[t] = "AWAITING_LLM"
    /\ i[t] = 3
    /\ Len(conversation_history[t]) = 8
    /\ Len(ObservationTurns(conversation_history[t])) = 3

\* an assistant turn whose text is valid JSON but no object
NonObjectTurn(turn) ==
  /\ turn.role = "assistant"
  /\ turn.content.t = "json_str"
  /\ ~IsDict(turn.content.json)

\* a decision whose tool_call is a non-empty value that is no object
NonObjectToolCallTurn(turn) ==
  /\ DecisionTurn(turn)
  /\ Truthy(get(turn.content.json, "tool_call", PyNone))
  /\ ~IsDict(get(turn.content.json, "tool_call", PyNone))

\* the task ends in the iteration of turn k with the degraded answer, having
\* dispatched nothing and recorded no step for that turn
EndsUnexpected(t, k) ==
  /\ EndsInThisIteration(t, k)
  /\ Len(steps[t]) = i[t]
  /\ Len(invocations[t]) <= i[t]
  /\ Returned(t) =>
       /\ result[t][1].answer = UnexpectedError
       /\ result[t][1].answer # NotSure
       /\ result[t][1].steps = steps[t]

\* C28 as stated: a response that is valid JSON but no object, or whose
\* tool_call is a non-empty value that is no object, ends the task with
\* "I encountered an unexpected error.", with no dispatch and no step record
\* for that turn.
C28_NonObjectEndsUnexpected ==
  \A t \in Tasks :
    \A k \in DOMAIN conversation_history[t] :
      (NonObjectTurn(conversation_history[t][k])
         \/ NonObjectToolCallTurn(conversation_history[t][k]))
        => EndsUnexpected(t, k)

\* C28 amended: a response that is valid JSON but no object, or that has no
\* final_answer key and whose tool_call is a non-empty value that is no
\* object, ends the task with "I encountered an unexpected error." (not with
\* "I am not sure how to proceed."), with no dispatch and no step record for
\* that turn; with a final_answer key the task ends with the final answer.
C28_NonObjectWithoutFinalAnswer ==
  \A t \in Tasks :
    \A k \in DOMAIN conversation_history[t] :
      LET turn == conversation_history[t][k]
      IN /\ (NonObjectTurn(turn) \/ (NonObjectToolCallTurn(turn) /\ ~FinalTurn(turn)))
              => EndsUnexpected(t, k)
         /\ (NonObjectToolCallTurn(turn) /\ FinalTurn(turn) /\ Returned(t))
              => /\ result[t][1].answer = turn.content.json.m["final_answer"]
                 /\ Len(result[t][1].steps) = i[t] + 1

\* after one dispatch, a decision whose tool_call is the string "read_rows"
\* and that has no final_answer ended the task with the degraded answer and
\* the one step of the first iteration
C28_Witness ==
  \E t \in Tasks :
    LET turn == Last(conversation_history[t])
    IN /\ Returned(t)
       /\ NonObjectToolCallTurn(turn) /\ ~FinalTurn(turn)
       /\ i[t] = 1 /\ dispatches[t] = 1
       /\ result[t][1].answer = UnexpectedError
       /\ Len(result[t][1].steps) = 1

\* a decision without final_answer whose tool_call is missing, null or empty
AbsentToolCallTurn(turn) ==
  /\ DecisionTurn(turn)
  /\ ~FinalTurn(turn)
  /\ ~Truthy(get(turn.content.json, "tool_call", PyNone))

\* a decision without final_answer whose tool_call is an object with entries
\* but no tool_name
UnnamedToolCallTurn(turn) ==
  /\ DecisionTurn(turn)
  /\ ~FinalTurn(turn)
  /\ IsDict(get(turn.content.json, "tool_call", PyNone))
  /\ Truthy(get(turn.content.json, "tool_call", PyNone))
  /\ "tool_name" \notin DOMAIN turn.content.json.m["tool_call"].m

\* the observation execute_tool gives for the name None
UndefinedNameObservation == PyDict("error" :> PyStr("Tool 'None' does not exist."))

\* C29: the kind of a decision is settled by key presence for final_answer
\* and by truthiness for tool_call. A response object that has the key
\* final_answer ends the task with that value as answer, also when the value
\* is null or the empty string; otherwise a tool_call that is missing, null
\* or an empty object ends the task with "I am not sure how to proceed.";
\* and a tool_call object with no tool_name is dispatched under the name None
\* and gives the "does not exist" observation, after which the task goes on.
C29_PresenceAndTruthiness ==
  \A t \in Tasks :
    \A k \in DOMAIN conversation_history[t] :
      LET turn == conversation_history[t][k]
      IN /\ FinalTurn(turn) =>
              /\ EndsInThisIteration(t, k)
              /\ Returned(t) =>
                   result[t][1].answer = turn.content.json.m["final_answer"]
         /\ AbsentToolCallTurn(turn) =>
              /\ EndsInThisIteration(t, k)
              /\ Returned(t) => result[t][1].answer = NotSure
         /\ UnnamedToolCallTurn(turn) =>
              /\ pc[t] # "RAISED"
              /\ k = Len(conversation_history[t]) =>
                   /\ ~Returned(t)
                   /\ pc[t] = "APPENDING" => observation_dict[t] = UndefinedNameObservation
              /\ k < Len(conversation_history[t]) =>
                   /\ conversation_history[t][k + 1] = FedBack(UndefinedNameObservation)
                   /\ observations[t][(k - 1) \div 2] = UndefinedNameObservation

\* a tool_call without tool_name was answered with the "does not exist"
\* observation, and the next decision, whose final_answer is the empty
\* string, ended the task with the empty string as answer
C29_Witness ==
  \E t \in Tasks :
    /\ Returned(t)
    /\ Len(conversation_history[t]) = 5
    /\ UnnamedToolCallTurn(conversation_history[t][3])
    /\ observations[t] = <<UndefinedNameObservation>>
    /\ result[t][1].answer = PyStr("")

\* the tool call of the current iteration of task t returned a value that
\* json.dumps rejects
UnserializableResult(t) ==
  /\ pc[t] \in {"APPENDING", "DONE", "RAISED"}
  /\ dispatches[t] = i[t] + 1
  /\ ~Serializable(observation_dict[t])

\* C30: if a tool returns a result that cannot be serialized to text, the
\* task ends in that iteration with "I encountered an unexpected error."
\* although the tool succeeded; the result is in none of observations, steps
\* and the transcript, whose last turn stays the LLM's decision; and the
\* output files the task's tool calls wrote are still there.
C30_UnserializableResultEndsTask ==
  \A t \in Tasks :
    UnserializableResult(t) =>
      /\ pc[t] # "RAISED"
      /\ ~IsErrorObservation(observation_dict[t])
      /\ Len(invocations[t]) > 0
      /\ llm_calls[t] = i[t] + 1
      /\ Len(observations[t]) = i[t]
      /\ Len(steps[t]) = i[t]
      /\ Len(conversation_history[t]) = 3 + 2 * i[t]
      /\ Last(conversation_history[t]).role = "assistant"
      /\ Returned(t) =>
           /\ result[t][1].answer = UnexpectedError
           /\ result[t][1].steps = steps[t]
           /\ result[t][1].observations = observations[t]
           /\ observation_dict[t] \notin Range(result[t][1].observations)
      /\ \A k \in DOMAIN observations[t] :
           "output_file" \in DOMAIN observations[t][k].m =>
             observations[t][k].m["output_file"].s \in DOMAIN files

\* a task sorted its workbook into sorted.xlsx, then read rows whose cells
\* are dates; it ended with the degraded answer, one observation, and the
\* sorted file on disk
C30_Witness ==
  \E t \in Tasks :
    /\ Returned(t)
    /\ UnserializableResult(t)
    /\ Last(invocations[t]).def = "read_rows"
    /\ observations[t] = <<SortedObservation>>
    /\ SortedPath \in DOMAIN files
    /\ result[t][1].answer = UnexpectedError

====
